---- MODULE Spec2Model ----
(***************************************************************************)
(* Persistent collections with undo/redo history:                          *)
(*   - UndoRedoManager (two persistent singly linked stacks of actions),   *)
(*   - PersistentArray (modification tree with Baker re-rooting),          *)
(*   - PersistentHashMap (HAMT with path copying),                         *)
(*   - PersistentList (fat nodes over a persistent version order).         *)
(* Shared objects (shared_ptr targets) live in heaps: sequences indexed by *)
(* address, address 0 being the null pointer.  C++ indices are 0-based and *)
(* kept 0-based in the operators; sequence s holds index i at s[i + 1].    *)
(***************************************************************************)
EXTENDS Integers, Sequences, FiniteSets, TLC

VARIABLES
  node,     \* heap of PersistentArray::PersistentNode
  act,      \* heap of UndoRedoAction objects (the captured undo / redo thunks)
  entry,    \* heap of UndoRedoStack::Entry cells
  arr,      \* the PersistentArray objects created so far
  hnode,    \* heap of HAMT nodes (immutable once made)
  maps,     \* the PersistentHashMap objects created so far
  order,    \* the PersistenceListOrder the lists share
  lnode,    \* heap of PersistenceListNode objects (fat nodes)
  lists,    \* the PersistentList objects created so far
  hist,     \* per array object: the abstract contents and undo/redo timeline
  last,     \* the most recent call that made or destroyed an object, and its outcome
            \* (hist is indexed like arr in SpecArr, maps in SpecMap, lists in SpecList)
  work      \* the workers that read arrays at the same time: each one's call of
            \* value(), its position in it and its local variables

vars == <<node, act, entry, arr, hnode, maps, order, lnode, lists, hist, last, work>>

\* ----------------------------------------------------------------- bounds

\* number of PersistentArray objects a run creates (the initial one included)
MaxArr == 4
\* longest array a run builds
MaxLen == 4

\* the values pushBack appends and the values setValue writes
PushVals == {100}
SetVals == {200}

\* the initial array is default constructed or built from one of these lists
InitLists == {<<>>, <<1, 2, 3>>}

\* ------------------------------------------------------------- exceptions

NoExc == "none"
PreConditionFailure == "PreConditionFailure"
AssertionFailure == "AssertionFailure"
OutOfRange == "std::out_of_range"

\* ------------------------------------------------------------ small helpers

Range(s) == {s[i] : i \in DOMAIN s}

\* a PersistenceListOrder just constructed
NoOrder == [list |-> <<>>, weight_true |-> <<>>, weight_reverse |-> <<>>]

State == [node |-> node, act |-> act, entry |-> entry, arr |-> arr]

\* ------------------------------------------------- UndoRedoStack (persistent)

\* UndoRedoStack::empty
empty(top_) == top_ = 0

\* UndoRedoStack::pop: the stack below the top cell (shared, not copied)
pop(E, top_) == IF top_ # 0 THEN E[top_].next ELSE 0

\* UndoRedoStack::push: a fresh Entry whose next is the receiver's top
push(E, top_, action) ==
  [entry |-> Append(E, [action |-> action, next |-> top_]), top |-> Len(E) + 1]

\* UndoRedoStack::top (CONTRACT_EXPECT(!empty()) is the caller's guard here)
top(E, top_) == E[top_].action

\* ~UndoRedoStack: while (top_) top_ = std::move(top_->next);
\* the move steals the next pointer out of every cell of the chain, whether
\* or not another stack still shares the cell.
RECURSIVE StackDtor(_, _)
StackDtor(E, top_) ==
  IF top_ = 0 THEN E
  ELSE StackDtor([E EXCEPT ![top_].next = 0], E[top_].next)

\* the cells of a stack, top first
RECURSIVE StackCells(_, _)
StackCells(E, top_) ==
  IF top_ = 0 THEN <<>> ELSE <<top_>> \o StackCells(E, E[top_].next)

\* ------------------------------------------------------ UndoRedoManager

\* a manager is the pair of its stacks' top pointers
Manager(u, r) == [undo |-> u, redo |-> r]

\* hasUndo that answers yes whatever the undo stack holds
hasUndo_always(m) == TRUE

\* UndoRedoManager::hasUndo / hasRedo
hasUndo(m) == ~empty(m.undo)

hasRedo(m) == ~empty(m.redo)

\* moveRecentAction without the pop: the moved action stays on its source
moveRecentAction_noPop(E, source, target) ==
  LET p == push(E, target, top(E, source))
  IN [entry |-> p.entry, source |-> source, target |-> p.top]

\* UndoRedoManager::moveRecentAction: (source.pop(), target.push(source.top()))
moveRecentAction(E, source, target) ==
  LET p == push(E, target, top(E, source))
  IN [entry |-> p.entry, source |-> pop(E, source), target |-> p.top]

\* pushUndo that carries the receiver's redo stack over
pushUndo_keepRedo(E, m, action) ==
  LET p == push(E, m.undo, action)
  IN [entry |-> p.entry, mgr |-> Manager(p.top, m.redo)]

\* UndoRedoManager::pushUndo: push onto the undo stack, empty redo stack
pushUndo(E, m, action) ==
  LET p == push(E, m.undo, action)
  IN [entry |-> p.entry, mgr |-> Manager(p.top, 0)]

\* UndoRedoManager::undo: the manager handed to the action's undo thunk
undo(E, m) ==
  IF ~hasUndo(m) THEN [exc |-> PreConditionFailure, entry |-> E, mgr |-> m, action |-> 0]
  ELSE LET mv == moveRecentAction(E, m.undo, m.redo)
       IN [exc |-> NoExc, entry |-> mv.entry, mgr |-> Manager(mv.source, mv.target),
           action |-> top(E, m.undo)]

\* UndoRedoManager::redo: the mirror image
redo(E, m) ==
  IF ~hasRedo(m) THEN [exc |-> PreConditionFailure, entry |-> E, mgr |-> m, action |-> 0]
  ELSE LET mv == moveRecentAction(E, m.redo, m.undo)
       IN [exc |-> NoExc, entry |-> mv.entry, mgr |-> Manager(mv.target, mv.source),
           action |-> top(E, m.redo)]

\* ------------------------------------------- PersistentArray: node impls

\* PersistentNode::makeRoot
makeRoot(storage) ==
  [root |-> TRUE, storage |-> storage, index |-> 0, value |-> 0, parent |-> 0]

\* PersistentNode::makeChangeSet
makeChangeSet(parent, index, v) ==
  [root |-> FALSE, storage |-> <<>>, index |-> index, value |-> v, parent |-> parent]

\* RootNodeImpl::contains / ChangeSetNodeImpl::contains
contains(n, index) ==
  IF n.root THEN index < Len(n.storage) ELSE n.index = index

\* PersistentNode::extend (the receiver is a root)
extend(N, r, v) == [N EXCEPT ![r].storage = Append(@, v)]

\* reparent that leaves the parent as it is
reparent_kept(N, n, newParent) == N

\* PersistentNode::reparent
reparent(N, n, newParent) == [N EXCEPT ![n].parent = newParent]

\* siftUpRoot without swapValues: the impls change places with their values
siftUpRoot_noSwap(N, r, other) ==
  [N EXCEPT
     ![r] = [root |-> FALSE, storage |-> <<>>, index |-> N[other].index,
             value |-> N[other].value, parent |-> N[r].parent],
     ![other] = [root |-> TRUE, storage |-> N[r].storage, index |-> 0, value |-> 0,
                 parent |-> N[other].parent]]

\* PersistentNode::siftUpRoot: swap the change-set's value with the root's
\* slot, then swap the two impls (the parents stay with their nodes)
siftUpRoot(N, r, other) ==
  LET idx == N[other].index
      st  == [N[r].storage EXCEPT ![idx + 1] = N[other].value]
  IN [N EXCEPT
        ![r] = [root |-> FALSE, storage |-> <<>>, index |-> idx,
                value |-> N[r].storage[idx + 1], parent |-> N[r].parent],
        ![other] = [root |-> TRUE, storage |-> st, index |-> 0, value |-> 0,
                    parent |-> N[other].parent]]

\* the stack "path" of reRootModificationTree: the nodes from n up to, and
\* without, the root; the last element is the stack's top
RECURSIVE PathToRoot(_, _)
PathToRoot(N, n) ==
  IF n = 0 \/ N[n].root THEN <<>> ELSE <<n>> \o PathToRoot(N, N[n].parent)

\* the node the first loop of reRootModificationTree stops at
RECURSIVE RootOf(_, _)
RootOf(N, n) == IF n = 0 \/ N[n].root THEN n ELSE RootOf(N, N[n].parent)

\* second loop of reRootModificationTree, path[i] being the stack's top
RECURSIVE SiftLoop(_, _, _, _)
SiftLoop(N, r, path, i) ==
  IF i = 0 THEN [node |-> N, exc |-> NoExc]
  ELSE LET p == path[i]
       IN IF ~contains(N[r], N[p].index)
          THEN [node |-> N, exc |-> PreConditionFailure]
          ELSE SiftLoop(reparent(siftUpRoot(N, r, p), r, p), p, path, i - 1)

\* PersistentArray::reRootModificationTree for an array whose node_ is n
RECURSIVE CutPath(_, _)
CutPath(N, path) ==
  IF path = <<>> THEN N ELSE CutPath(reparent(N, Head(path), 0), Tail(path))

reRootModificationTree(N, n) ==
  LET path == PathToRoot(N, n)
  IN SiftLoop(CutPath(N, path), RootOf(N, n), path, Len(path))

\* ------------------------------------------------ PersistentArray: calls
\* Every call takes the whole object graph S and returns
\* [S |-> the graph afterwards, exc |-> the exception raised or NoExc,
\*  res |-> the result: an array's index in S.arr, a value or a boolean].

Ret(S, exc, res) == [S |-> S, exc |-> exc, res |-> res]

\* the PersistentArray constructor used by the undo / redo thunks
ArrayObj(size, n, m) ==
  [size |-> size, node |-> n, undo |-> m.undo, redo |-> m.redo, live |-> TRUE]

\* UndoablePersistentCollection::undoManager
undoManager(A) == Manager(A.undo, A.redo)

\* PersistentArray::value: RootNodeImpl::value is storage_.at(index)
value(S, a, index) ==
  LET A == S.arr[a] IN
  IF ~(index < A.size) THEN Ret(S, PreConditionFailure, 0)
  ELSE IF contains(S.node[A.node], index)
  THEN Ret(S, NoExc, IF S.node[A.node].root THEN S.node[A.node].storage[index + 1]
                     ELSE S.node[A.node].value)
  ELSE LET rr == reRootModificationTree(S.node, A.node)
           S1 == [S EXCEPT !.node = rr.node]
       IN IF rr.exc # NoExc THEN Ret(S1, rr.exc, 0)
          ELSE IF ~(index < Len(rr.node[A.node].storage)) THEN Ret(S1, OutOfRange, 0)
          ELSE Ret(S1, NoExc, rr.node[A.node].storage[index + 1])

\* PersistentArray::front
front(S, a) ==
  IF S.arr[a].size = 0 THEN Ret(S, PreConditionFailure, 0)
  ELSE value(S, a, 0)

\* PersistentArray::back
back(S, a) ==
  IF S.arr[a].size = 0 THEN Ret(S, PreConditionFailure, 0)
  ELSE value(S, a, S.arr[a].size - 1)

\* PersistentArray::modify: build the (undo, redo) action of the receiver a,
\* push it and return the array the redo thunk makes
modify(S, a, newNode, newSize) ==
  LET A  == S.arr[a]
      ac == [uSize |-> A.size, uNode |-> A.node, rSize |-> newSize, rNode |-> newNode]
      pu == pushUndo(S.entry, undoManager(A), Len(S.act) + 1)
      S1 == [S EXCEPT !.act = Append(@, ac), !.entry = pu.entry,
                      !.arr = Append(@, ArrayObj(newSize, newNode, pu.mgr))]
  IN Ret(S1, NoExc, Len(S1.arr))

\* setValue that writes into the root's storage instead of making a change-set
setValue_inPlace(S, a, index, v) ==
  LET A == S.arr[a] IN
  IF ~(index < A.size) THEN Ret(S, PreConditionFailure, 0)
  ELSE modify([S EXCEPT !.node[RootOf(S.node, A.node)].storage[index + 1] = v],
              a, A.node, A.size)

\* PersistentArray::setValue
setValue(S, a, index, v) ==
  LET A == S.arr[a] IN
  IF ~(index < A.size) THEN Ret(S, PreConditionFailure, 0)
  ELSE LET S1 == [S EXCEPT !.node = Append(@, makeChangeSet(A.node, index, v))]
       IN modify(S1, a, Len(S1.node), A.size)

\* PersistentArray::findOrCreateRoot: a null node_ is replaced by a fresh
\* empty root (node_ is mutable); res is the root found, 0 when the walk
\* ends at a null parent (SAFE_DEREF then raises)
findOrCreateRoot(S, a) ==
  IF S.arr[a].node = 0
  THEN LET S1 == [S EXCEPT !.node = Append(@, makeRoot(<<>>)),
                           !.arr[a].node = Len(S.node) + 1]
       IN Ret(S1, NoExc, Len(S1.node))
  ELSE LET r == RootOf(S.node, S.arr[a].node)
       IN Ret(S, IF r = 0 THEN PreConditionFailure ELSE NoExc, r)

\* emplaceBack that appends to the root's storage whatever the root holds
emplaceBack_appending(S, a, v) ==
  LET f == findOrCreateRoot(S, a) IN
  IF f.exc # NoExc THEN f
  ELSE modify([f.S EXCEPT !.node = extend(@, f.res, v)], a, f.S.arr[a].node,
              f.S.arr[a].size + 1)

\* PersistentArray::emplaceBack (pushBack forwards to it)
emplaceBack(S, a, v) ==
  LET f == findOrCreateRoot(S, a) IN
  IF f.exc # NoExc THEN f
  ELSE LET A == f.S.arr[a] IN
       IF contains(f.S.node[f.res], A.size)
       THEN LET S1 == [f.S EXCEPT !.node = Append(@, makeChangeSet(A.node, A.size, v))]
            IN modify(S1, a, Len(S1.node), A.size + 1)
       ELSE modify([f.S EXCEPT !.node = extend(@, f.res, v)], a, A.node, A.size + 1)

\* popBack that hands back an empty array when there is nothing to remove
popBack_lenient(S, a) ==
  IF S.arr[a].size = 0 THEN modify(S, a, S.arr[a].node, 0)
  ELSE modify(S, a, S.arr[a].node, S.arr[a].size - 1)

\* PersistentArray::popBack
popBack(S, a) ==
  IF S.arr[a].size = 0 THEN Ret(S, PreConditionFailure, 0)
  ELSE modify(S, a, S.arr[a].node, S.arr[a].size - 1)

\* undo that hands back a copy of the receiver when there is nothing to undo
arrUndo_lenient(S, a) ==
  LET u == undo(S.entry, undoManager(S.arr[a])) IN
  IF u.exc # NoExc
  THEN LET S1 == [S EXCEPT !.arr = Append(@, S.arr[a])] IN Ret(S1, NoExc, Len(S1.arr))
  ELSE LET ac == S.act[u.action]
           S1 == [S EXCEPT !.entry = u.entry,
                           !.arr = Append(@, ArrayObj(ac.uSize, ac.uNode, u.mgr))]
       IN Ret(S1, NoExc, Len(S1.arr))

\* UndoablePersistentCollection::undo for an array: the manager's undo hands
\* the moved stacks to the action's undo thunk
arrUndo(S, a) ==
  LET u == undo(S.entry, undoManager(S.arr[a])) IN
  IF u.exc # NoExc THEN Ret(S, u.exc, 0)
  ELSE LET ac == S.act[u.action]
           S1 == [S EXCEPT !.entry = u.entry,
                           !.arr = Append(@, ArrayObj(ac.uSize, ac.uNode, u.mgr))]
       IN Ret(S1, NoExc, Len(S1.arr))

\* UndoablePersistentCollection::redo for an array
arrRedo(S, a) ==
  LET u == redo(S.entry, undoManager(S.arr[a])) IN
  IF u.exc # NoExc THEN Ret(S, u.exc, 0)
  ELSE LET ac == S.act[u.action]
           S1 == [S EXCEPT !.entry = u.entry,
                           !.arr = Append(@, ArrayObj(ac.rSize, ac.rNode, u.mgr))]
       IN Ret(S1, NoExc, Len(S1.arr))

\* operator==(PersistentArray, PersistentArray): std::equal over the two
\* iterator ranges; each dereference is a value() call, so comparing may
\* re-root the tree again and again.  The order in which the two operands of
\* the element comparison are evaluated is unspecified: lhsFirst picks it.
RECURSIVE equalFrom(_, _, _, _, _)
equalFrom(S, a, b, i, lhsFirst) ==
  IF ~(i < S.arr[a].size) THEN Ret(S, NoExc, TRUE)
  ELSE LET r1 == value(S, IF lhsFirst THEN a ELSE b, i)
           r2 == value(r1.S, IF lhsFirst THEN b ELSE a, i)
       IN IF r1.exc # NoExc THEN Ret(r1.S, r1.exc, FALSE)
          ELSE IF r2.exc # NoExc THEN Ret(r2.S, r2.exc, FALSE)
          ELSE IF r1.res # r2.res THEN Ret(r2.S, NoExc, FALSE)
          ELSE equalFrom(r2.S, a, b, i + 1, lhsFirst)

arrEqual(S, a, b, lhsFirst) ==
  IF S.arr[a].size # S.arr[b].size THEN Ret(S, NoExc, FALSE)
  ELSE equalFrom(S, a, b, 0, lhsFirst)

\* ------------------------------------------- ownership (shared_ptr counts)

LiveArrs(S) == {a \in DOMAIN S.arr : S.arr[a].live}

RECURSIVE ChainSet(_, _)
ChainSet(E, t) == IF t = 0 THEN {} ELSE {t} \cup ChainSet(E, E[t].next)

\* the Entry cells some live manager still owns, directly or through next
LiveEntries(S) ==
  UNION {ChainSet(S.entry, S.arr[a].undo) \cup ChainSet(S.entry, S.arr[a].redo)
           : a \in LiveArrs(S)}

\* the action objects owned by those cells
LiveActs(S) == {S.entry[e].action : e \in LiveEntries(S)}

RECURSIVE UpSet(_, _)
UpSet(N, n) == IF n = 0 THEN {} ELSE {n} \cup UpSet(N, N[n].parent)

\* the nodes kept alive by arrays, by thunk captures and by children
LiveNodes(S) ==
  UNION {UpSet(S.node, n) :
           n \in {S.arr[a].node : a \in LiveArrs(S)}
                 \cup {S.act[c].uNode : c \in LiveActs(S)}
                 \cup {S.act[c].rNode : c \in LiveActs(S)}}

\* shared_ptr<PersistentNode>::use_count
use_count(S, n) ==
    Cardinality({a \in LiveArrs(S) : S.arr[a].node = n})
  + Cardinality({c \in LiveActs(S) : S.act[c].uNode = n})
  + Cardinality({c \in LiveActs(S) : S.act[c].rNode = n})
  + Cardinality({m \in LiveNodes(S) : S.node[m].parent = n})

\* cells no owner is left for are freed: their addresses hold nothing
FreedNode == [root |-> FALSE, storage |-> <<>>, index |-> 0, value |-> 0, parent |-> 0]
FreedAct == [uSize |-> 0, uNode |-> 0, rSize |-> 0, rNode |-> 0]
FreedEntry == [action |-> 0, next |-> 0]
RECURSIVE FreeAll(_, _, _)
FreeAll(H, dead, freed) ==
  IF dead = {} THEN H
  ELSE LET d == CHOOSE x \in dead : TRUE
       IN FreeAll([H EXCEPT ![d] = freed], dead \ {d}, freed)

Release(S) ==
  [S EXCEPT
     !.node  = FreeAll(@, DOMAIN S.node \ LiveNodes(S), FreedNode),
     !.act   = FreeAll(@, DOMAIN S.act \ LiveActs(S), FreedAct),
     !.entry = FreeAll(@, DOMAIN S.entry \ LiveEntries(S), FreedEntry)]

\* ~PersistentArray: while (node_ && node_.use_count() == 1)
\*                     node_ = node_->reparent(nullptr);
RECURSIVE dtorLoop(_, _)
dtorLoop(S, a) ==
  LET n == S.arr[a].node IN
  IF n # 0 /\ use_count(S, n) = 1
  THEN dtorLoop([S EXCEPT !.arr[a].node = S.node[n].parent,
                          !.node = reparent(@, n, 0)], a)
  ELSE S

\* destruction of an array object: ~PersistentArray, then its members, then
\* the base class with the manager, whose stacks are destroyed in reverse
\* order of declaration (redoStack_, then undoStack_)
arrDtor(S, a) ==
  LET S1 == dtorLoop(S, a)
      E1 == StackDtor(StackDtor(S1.entry, S1.arr[a].redo), S1.arr[a].undo)
  IN Release([S1 EXCEPT
       !.entry = E1,
       !.arr[a] = [size |-> 0, node |-> 0, undo |-> 0, redo |-> 0, live |-> FALSE]])

\* ------------------------------------------------- abstract view (ghost)
\* hist[a] is what array object a must look like: content is the sequence it
\* holds, past the contents undo() steps back through (nearest first) and
\* future the contents redo() steps forward through (nearest first).

Born(content) == [content |-> content, past |-> <<>>, future |-> <<>>]
Mutated(h, content) ==
  [content |-> content, past |-> <<h.content>> \o h.past, future |-> <<>>]
Undone(h) ==
  [content |-> Head(h.past), past |-> Tail(h.past),
   future |-> <<h.content>> \o h.future]
Redone(h) ==
  [content |-> Head(h.future), past |-> <<h.content>> \o h.past,
   future |-> Tail(h.future)]

Front(s) == SubSeq(s, 1, Len(s) - 1)

\* the record of a call that makes or destroys an array object: receiver, arguments, exception, result, and the
\* array object the call returned (0 when it returned none)
Call(op, recv, arg, r, made) ==
  [op |-> op, recv |-> recv, arg |-> arg, exc |-> r.exc, res |-> r.res, made |-> made]

Apply(r) ==
  /\ node' = r.S.node
  /\ act' = r.S.act
  /\ entry' = r.S.entry
  /\ arr' = r.S.arr
  /\ UNCHANGED <<hnode, maps, order, lnode, lists, work>>

\* a call that returns an array: h is the abstract view of the result
Returns(op, a, arg, r, h) ==
  /\ Apply(r)
  /\ last' = Call(op, a, arg, r, IF r.exc = NoExc THEN r.res ELSE 0)
  /\ hist' = IF r.exc = NoExc THEN Append(hist, h) ELSE hist

\* ----------------------------------------------------------------- actions

CanMake == Len(arr) < MaxArr

\* PersistentArray{...} / PersistentArray{}
InitArr ==
  \E l \in InitLists :
    /\ node = IF l = <<>> THEN <<>> ELSE <<makeRoot(l)>>
    /\ act = <<>>
    /\ entry = <<>>
    /\ arr = <<ArrayObj(Len(l), IF l = <<>> THEN 0 ELSE 1, Manager(0, 0))>>
    /\ hnode = <<>>
    /\ maps = <<>>
    /\ order = NoOrder
    /\ lnode = <<>>
    /\ lists = <<>>
    /\ work = <<>>
    /\ hist = <<Born(l)>>
    /\ last = [op |-> "construct", recv |-> 0, arg |-> <<>>, exc |-> NoExc, res |-> 1,
               made |-> 1]

ArrSetValue ==
  \E a \in DOMAIN arr, i \in 0..MaxLen, v \in SetVals :
    /\ arr[a].live /\ CanMake /\ i <= arr[a].size
    /\ LET r == setValue(State, a, i, v)
       IN Returns("setValue", a, <<i, v>>, r,
                  Mutated(hist[a], IF i < Len(hist[a].content)
                                   THEN [hist[a].content EXCEPT ![i + 1] = v]
                                   ELSE hist[a].content))

ArrPushBack ==
  \E a \in DOMAIN arr, v \in PushVals :
    /\ arr[a].live /\ CanMake /\ arr[a].size < MaxLen
    /\ LET r == emplaceBack(State, a, v)
       IN Returns("pushBack", a, <<v>>, r, Mutated(hist[a], Append(hist[a].content, v)))

ArrPopBack ==
  \E a \in DOMAIN arr :
    /\ arr[a].live /\ CanMake
    /\ LET r == popBack(State, a)
       IN Returns("popBack", a, <<>>, r, Mutated(hist[a], Front(hist[a].content)))

ArrUndo ==
  \E a \in DOMAIN arr :
    /\ arr[a].live /\ CanMake
    /\ LET r == arrUndo(State, a)
       IN Returns("undo", a, <<>>, r, Undone(hist[a]))

ArrRedo ==
  \E a \in DOMAIN arr :
    /\ arr[a].live /\ CanMake
    /\ LET r == arrRedo(State, a)
       IN Returns("redo", a, <<>>, r, Redone(hist[a]))

\* a read: it may re-root the tree, and changes nothing else
ArrValue ==
  \E a \in DOMAIN arr, i \in 0..MaxLen :
    /\ arr[a].live /\ i <= arr[a].size
    /\ Apply(value(State, a, i))
    /\ UNCHANGED <<hist, last>>

\* a comparison: a run of reads on both operands
ArrEqual ==
  \E a \in DOMAIN arr, b \in DOMAIN arr, lhsFirst \in BOOLEAN :
    /\ arr[a].live /\ arr[b].live /\ a <= b
    /\ Apply(arrEqual(State, a, b, lhsFirst))
    /\ UNCHANGED <<hist, last>>

\* the receiver of the most recent call was a temporary, as x.f() is in
\* x.f().g(): it is destroyed once the call has returned its array
ArrDestroy ==
  /\ last.exc = NoExc /\ last.made # 0 /\ last.recv # 0
  /\ last.recv \in DOMAIN arr /\ arr[last.recv].live
  /\ Apply(Ret(arrDtor(State, last.recv), NoExc, 0))
  /\ last' = [op |-> "destroy", recv |-> last.recv, arg |-> <<>>, exc |-> NoExc,
              res |-> 0, made |-> 0]
  /\ UNCHANGED hist

NextArr ==
  \/ ArrSetValue
  \/ ArrPushBack
  \/ ArrPopBack
  \/ ArrUndo
  \/ ArrRedo
  \/ ArrValue
  \/ ArrEqual
  \/ ArrDestroy

SpecArr == InitArr /\ [][NextArr]_vars

\* ------------------------------------------------------------ HAMT nodes
\* PersistentHashMap::HamtTraits
BitSize == 5
BitMask == 31
Capacity == 32
MaxDepth == 11

\* the keys of the modelled maps and Traits::Hasher on them: 1 and 33 share
\* the level-0 bit and part at level 1, 2 parts from them at level 0, and
\* 1001 has the hash of 1 (a full collision)
KeySeq == <<1, 33, 2, 1001>>
Keys == Range(KeySeq)
Hasher(k) == k % 1000

\* HamtVisitorBase::getLevelBit: (hash >> BitSize * level) & BitMask; the
\* modelled hashes are below 2^30, so every deeper level reads 0
getLevelBit(hash, level) ==
  IF BitSize * level > 30 THEN 0 ELSE (hash \div 2^(BitSize * level)) % (BitMask + 1)

\* HamtValueNode / HamtBitmapNode / HamtCollisionNode
hValue(k, v) == [kind |-> "value", key |-> k, val |-> v, bitmap |-> {}, children |-> <<>>]
hBitmap(bm, ch) == [kind |-> "bitmap", key |-> 0, val |-> 0, bitmap |-> bm, children |-> ch]
hCollision(ch) == [kind |-> "collision", key |-> 0, val |-> 0, bitmap |-> {}, children |-> ch]

\* X::create: a new node at a fresh address
create(H, n) == [H |-> Append(H, n), p |-> Len(H) + 1]

\* Util::vectorInserted / vectorReplaced / vectorErased at 0-based position i
vectorInserted(s, i, x) == SubSeq(s, 1, i) \o <<x>> \o SubSeq(s, i + 1, Len(s))
vectorReplaced(s, i, x) == SubSeq(s, 1, i) \o <<x>> \o SubSeq(s, i + 2, Len(s))
vectorErased(s, i) == SubSeq(s, 1, i) \o SubSeq(s, i + 2, Len(s))

\* HamtBitmapNode::bitToIndex: the number of set bits below bit
bitToIndex(n, bit) == Cardinality({b \in n.bitmap : b < bit})

\* HamtBitmapNode::containsBit / getChildAtBit
containsBit(n, bit) == bit \in n.bitmap
getChildAtBit(n, bit) == n.children[bitToIndex(n, bit) + 1]

\* HamtBitmapNode::insertBit / replaceBit / eraseBit: each makes a new node
insertBit(H, p, bit, child) ==
  create(H, hBitmap(H[p].bitmap \cup {bit},
                    vectorInserted(H[p].children, bitToIndex(H[p], bit), child)))

\* replaceBit that overwrites the receiver's table instead of copying it
replaceBit_inPlace(H, p, bit, child) ==
  [H |-> [H EXCEPT ![p].children = vectorReplaced(@, bitToIndex(H[p], bit), child)],
   p |-> p]

replaceBit(H, p, bit, child) ==
  create(H, hBitmap(H[p].bitmap,
                    vectorReplaced(H[p].children, bitToIndex(H[p], bit), child)))

eraseBit(H, p, bit) ==
  create(H, hBitmap(H[p].bitmap \ {bit},
                    vectorErased(H[p].children, bitToIndex(H[p], bit))))

\* HamtCollisionNode::findImpl: 0-based position of the key, size() if absent
RECURSIVE findImpl(_, _, _, _)
findImpl(H, ch, key, i) ==
  IF i >= Len(ch) THEN Len(ch)
  ELSE IF H[ch[i + 1]].key = key THEN i ELSE findImpl(H, ch, key, i + 1)

\* HamtCollisionNode::findCollision: the value node, 0 for nullptr
findCollision(H, p, key) ==
  LET i == findImpl(H, H[p].children, key, 0)
  IN IF i < Len(H[p].children) THEN H[p].children[i + 1] ELSE 0

\* HamtCollisionNode::addCollision / removeCollision
addCollision(H, p, v) == create(H, hCollision(Append(H[p].children, v)))
removeCollision(H, p, key) ==
  create(H, hCollision(vectorErased(H[p].children, findImpl(H, H[p].children, key, 0))))

\* HamtVisitorStatus
Resized == "Resized"
ModifiedExisting == "ModifiedExisting"
Unchanged == "Unchanged"

\* a visitor's result: the heap, the status, the node (0 for nullptr), and
\* the exception raised on the way
VRes(H, status, n) == [H |-> H, status |-> status, node |-> n, exc |-> NoExc]

\* ------------------------------------------------------------ HAMT visitors
RECURSIVE InserterVisit(_, _, _, _, _)
RECURSIVE resolveCollision(_, _, _, _, _)

\* InserterVisitor::resolveCollision at the visitor's current level: the node
\* that takes the place of value node p
resolveCollision(H, p, ins, replace, level) ==
  IF level > MaxDepth THEN create(H, hCollision(<<p, ins>>))
  ELSE LET bitCurrent == getLevelBit(Hasher(H[p].key), level)
           bitInserted == getLevelBit(Hasher(H[ins].key), level)
       IN IF bitCurrent = bitInserted
            THEN LET indexNode == create(H, hBitmap({bitCurrent}, <<p>>))
                     r == InserterVisit(indexNode.H, indexNode.p, ins, replace, level)
                 IN [H |-> r.H, p |-> r.node]
            ELSE create(H, hBitmap({bitCurrent, bitInserted},
                                   IF bitCurrent < bitInserted THEN <<p, ins>>
                                                               ELSE <<ins, p>>))

\* InserterVisitor::visit, by the kind of node p
InserterVisit(H, p, ins, replace, level) ==
  IF H[p].kind = "value" THEN
    IF H[p].key = H[ins].key
      THEN IF replace THEN VRes(H, ModifiedExisting, ins) ELSE VRes(H, Unchanged, p)
      ELSE LET c == resolveCollision(H, p, ins, replace, level)
           IN VRes(c.H, Resized, c.p)
  ELSE IF H[p].kind = "bitmap" THEN
    LET bit == getLevelBit(Hasher(H[ins].key), level)
    IN IF ~containsBit(H[p], bit)
         THEN LET n == insertBit(H, p, bit, ins) IN VRes(n.H, Resized, n.p)
         ELSE LET child == getChildAtBit(H[p], bit)
                  r == InserterVisit(H, child, ins, replace, level + 1)
              IN IF child # r.node
                   THEN LET n == replaceBit(r.H, p, bit, r.node)
                        IN VRes(n.H, r.status, n.p)
                   ELSE VRes(r.H, r.status, p)
  ELSE
    LET found == findCollision(H, p, H[ins].key) # 0
        collision == IF found /\ replace THEN removeCollision(H, p, H[ins].key)
                                         ELSE [H |-> H, p |-> p]
        modificationType == IF found /\ replace THEN ModifiedExisting ELSE Resized
    IN IF ~found \/ replace
         THEN LET n == addCollision(collision.H, collision.p, ins)
              IN VRes(n.H, modificationType, n.p)
         ELSE VRes(collision.H, Unchanged, collision.p)

\* EraserVisitor::visit, by the kind of node p; vector::at(0) on an emptied
\* table throws std::out_of_range
RECURSIVE EraserVisit(_, _, _, _)
EraserVisit(H, p, key, level) ==
  IF H[p].kind = "value" THEN
    IF H[p].key = key THEN VRes(H, Resized, 0) ELSE VRes(H, Unchanged, p)
  ELSE IF H[p].kind = "bitmap" THEN
    LET bit == getLevelBit(Hasher(key), level)
    IN IF ~containsBit(H[p], bit) THEN VRes(H, Unchanged, p)
       ELSE LET child == getChildAtBit(H[p], bit)
                r == EraserVisit(H, child, key, level + 1)
            IN IF r.exc # NoExc THEN r
               ELSE IF child # r.node
                 THEN IF r.node = 0
                        THEN LET nodeErased == eraseBit(r.H, p, bit)
                                 ch == nodeErased.H[nodeErased.p].children
                             IN IF Len(ch) > 1 THEN VRes(nodeErased.H, r.status, nodeErased.p)
                                ELSE IF Len(ch) = 1 THEN VRes(nodeErased.H, r.status, ch[1])
                                ELSE [VRes(nodeErased.H, r.status, 0) EXCEPT !.exc = OutOfRange]
                        ELSE LET n == replaceBit(r.H, p, bit, r.node)
                             IN VRes(n.H, r.status, n.p)
                 ELSE VRes(r.H, Unchanged, p)
  ELSE
    IF findCollision(H, p, key) # 0
      THEN LET removed == removeCollision(H, p, key)
               ch == removed.H[removed.p].children
           IN IF Len(ch) > 1 THEN VRes(removed.H, Resized, removed.p)
              ELSE IF Len(ch) = 1 THEN VRes(removed.H, Resized, ch[1])
              ELSE [VRes(removed.H, Resized, 0) EXCEPT !.exc = OutOfRange]
      ELSE VRes(H, Unchanged, p)

\* SearcherVisitor::visit, by the kind of node p: the node found, 0 for nullptr
RECURSIVE SearcherVisit(_, _, _, _)
SearcherVisit(H, p, key, level) ==
  IF H[p].kind = "bitmap" THEN
    LET bit == getLevelBit(Hasher(key), level)
    IN IF ~containsBit(H[p], bit) THEN 0
       ELSE SearcherVisit(H, getChildAtBit(H[p], bit), key, level + 1)
  ELSE IF H[p].kind = "collision" THEN findCollision(H, p, key)
  ELSE IF H[p].key = key THEN p ELSE 0

\* ------------------------------------------------------ PersistentHashMap
MaxMaps == 3

\* the initializer lists maps are constructed from, and the (value, replace)
\* arguments insert is called with
InitMaps == {<<>>, <<<<1, 10>>, <<33, 10>>>>, <<<<1, 10>>, <<33, 10>>, <<2, 10>>>>,
             <<<<1, 10>>, <<1001, 10>>, <<1, 20>>>>}
InsertArgs == {<<10, TRUE>>, <<20, FALSE>>}

MState == [hnode |-> hnode, act |-> act, entry |-> entry, maps |-> maps]

\* a map object: size_, hamtRoot_ and the two stacks of its manager
MapObj(size, root, m) ==
  [size |-> size, root |-> root, undo |-> m.undo, redo |-> m.redo, live |-> TRUE]

\* PersistentHashMap::modifyHamt: the undo thunk captures (size_, hamtRoot_),
\* the redo thunk (newSize, newRoot); the result is redo(pushUndo(action))
modifyHamt(S, m, newRoot, newSize) ==
  LET M == S.maps[m]
      ac == [uSize |-> M.size, uNode |-> M.root, rSize |-> newSize, rNode |-> newRoot]
      S1 == [S EXCEPT !.act = Append(@, ac)]
      p == pushUndo(S1.entry, undoManager(M), Len(S1.act))
      S2 == [S1 EXCEPT !.entry = p.entry, !.maps = Append(@, MapObj(newSize, newRoot, p.mgr))]
  IN Ret(S2, NoExc, Len(S2.maps))

\* insert that replaces the value of a key it meets whatever replace says
mapInsert_replacing(S, m, k, v, replace) ==
  LET M == S.maps[m]
      n == create(S.hnode, hValue(k, v))
  IN IF M.root = 0 THEN modifyHamt([S EXCEPT !.hnode = n.H], m, n.p, 1)
     ELSE LET r == InserterVisit(n.H, M.root, n.p, TRUE, 0)
          IN modifyHamt([S EXCEPT !.hnode = r.H], m, r.node,
                        IF r.status = Resized THEN M.size + 1 ELSE M.size)

\* PersistentHashMap::insert
mapInsert(S, m, k, v, replace) ==
  LET M == S.maps[m]
      n == create(S.hnode, hValue(k, v))
  IN IF M.root = 0 THEN modifyHamt([S EXCEPT !.hnode = n.H], m, n.p, 1)
     ELSE LET r == InserterVisit(n.H, M.root, n.p, replace, 0)
          IN modifyHamt([S EXCEPT !.hnode = r.H], m, r.node,
                        IF r.status = Resized THEN M.size + 1 ELSE M.size)

\* PersistentHashMap::erase; an exception leaves nothing of the call behind
mapErase(S, m, k) ==
  LET M == S.maps[m]
  IN IF M.root = 0 THEN modifyHamt(S, m, 0, 0)
     ELSE LET r == EraserVisit(S.hnode, M.root, k, 0)
          IN IF r.exc # NoExc THEN Ret(S, r.exc, 0)
             ELSE modifyHamt([S EXCEPT !.hnode = r.H], m, r.node,
                             IF r.status = Resized THEN M.size - 1 ELSE M.size)

\* PersistentHashMap::find: the optional as a record
mapFind(S, m, k) ==
  LET M == S.maps[m]
      p == IF M.root = 0 THEN 0 ELSE SearcherVisit(S.hnode, M.root, k, 0)
  IN IF p # 0 /\ S.hnode[p].kind = "value"
       THEN [found |-> TRUE, val |-> S.hnode[p].val]
       ELSE [found |-> FALSE, val |-> 0]

\* PersistentHashMap::contains
mapContains(S, m, k) == mapFind(S, m, k).found

Reverse(s) == [i \in 1..Len(s) |-> s[Len(s) + 1 - i]]

\* traverseNext that stacks the children of the top node and forgets the
\* entries that were waiting under it
traverseNext_dropping(H, iteration_) ==
  Reverse(H[Head(iteration_)].children)

\* PersistentHashMapIterator::traverseNext on the chain of iteration entries,
\* top first: drop the top entry and stack its node's children on the rest
traverseNext(H, iteration_) ==
  Reverse(H[Head(iteration_)].children) \o Tail(iteration_)

\* begin() .. end(): the key-value pairs in the order the iterator yields them
RECURSIVE mapItems(_, _)
mapItems(H, iteration_) ==
  IF iteration_ = <<>> THEN <<>>
  ELSE LET n == H[Head(iteration_)]
       IN (IF n.kind = "value" THEN <<<<n.key, n.val>>>> ELSE <<>>)
          \o mapItems(H, traverseNext(H, iteration_))

mapBegin(S, m) == IF S.maps[m].root = 0 THEN <<>> ELSE <<S.maps[m].root>>

\* operator==(PersistentHashMap, PersistentHashMap)
mapEqual(S, lhs, rhs) ==
  IF S.maps[lhs].size # S.maps[rhs].size THEN FALSE
  ELSE \A i \in DOMAIN mapItems(S.hnode, mapBegin(S, lhs)) :
         LET lhsValue == mapItems(S.hnode, mapBegin(S, lhs))[i]
             rhsValue == mapFind(S, rhs, lhsValue[1])
         IN rhsValue.found /\ rhsValue.val = lhsValue[2]

\* UndoablePersistentCollection::undo / redo for a map
mapUndo(S, m) ==
  LET u == undo(S.entry, undoManager(S.maps[m])) IN
  IF u.exc # NoExc THEN Ret(S, u.exc, 0)
  ELSE LET ac == S.act[u.action]
           S1 == [S EXCEPT !.entry = u.entry,
                           !.maps = Append(@, MapObj(ac.uSize, ac.uNode, u.mgr))]
       IN Ret(S1, NoExc, Len(S1.maps))

mapRedo(S, m) ==
  LET u == redo(S.entry, undoManager(S.maps[m])) IN
  IF u.exc # NoExc THEN Ret(S, u.exc, 0)
  ELSE LET ac == S.act[u.action]
           S1 == [S EXCEPT !.entry = u.entry,
                           !.maps = Append(@, MapObj(ac.rSize, ac.rNode, u.mgr))]
       IN Ret(S1, NoExc, Len(S1.maps))

\* the constructor inserting each value with replace on: the last pair of a
\* key wins
RECURSIVE mapFromList_replacing(_, _, _)
mapFromList_replacing(S, l, i) ==
  IF i > Len(l) THEN S
  ELSE LET r == mapInsert(S, 1, l[i][1], l[i][2], TRUE)
           M == r.S.maps[r.res]
       IN mapFromList_replacing([S EXCEPT !.hnode = r.S.hnode,
                                          !.maps = <<MapObj(M.size, M.root, Manager(0, 0))>>],
                                l, i + 1)

\* PersistentHashMap(std::initializer_list): insert(value, false) for each
\* value, the history cleared after each
RECURSIVE mapFromList(_, _, _)
mapFromList(S, l, i) ==
  IF i > Len(l) THEN S
  ELSE LET r == mapInsert(S, 1, l[i][1], l[i][2], FALSE)
           M == r.S.maps[r.res]
       IN mapFromList([S EXCEPT !.hnode = r.S.hnode,
                                !.maps = <<MapObj(M.size, M.root, Manager(0, 0))>>],
                      l, i + 1)

\* ~PersistentHashMap: the members, then the manager's stacks (redoStack_,
\* then undoStack_); cells and actions no live manager owns are freed
LiveMapEntries(S) ==
  UNION {ChainSet(S.entry, S.maps[m].undo) \cup ChainSet(S.entry, S.maps[m].redo)
           : m \in {x \in DOMAIN S.maps : S.maps[x].live}}

mapDtor(S, m) ==
  LET E1 == StackDtor(StackDtor(S.entry, S.maps[m].redo), S.maps[m].undo)
      S1 == [S EXCEPT !.entry = E1,
                      !.maps[m] = [size |-> 0, root |-> 0, undo |-> 0, redo |-> 0,
                                   live |-> FALSE]]
      liveE == LiveMapEntries(S1)
  IN [S1 EXCEPT
        !.act = FreeAll(@, DOMAIN S1.act \ {S1.entry[e].action : e \in liveE}, FreedAct),
        !.entry = FreeAll(@, DOMAIN S1.entry \ liveE, FreedEntry)]

\* ------------------------------------------------ maps: abstract view, actions
\* hist[m].content of a map lists, key by key of KeySeq, the value the map
\* must hold for the key, 0 when the key must be absent

KeyIdx(k) == CHOOSE i \in DOMAIN KeySeq : KeySeq[i] = k
NoKeys == <<0, 0, 0, 0>>
AbsInsert(c, k, v, replace) ==
  IF c[KeyIdx(k)] = 0 \/ replace THEN [c EXCEPT ![KeyIdx(k)] = v] ELSE c
AbsErase(c, k) == [c EXCEPT ![KeyIdx(k)] = 0]
RECURSIVE AbsFromList(_, _)
AbsFromList(l, i) ==
  IF i = 0 THEN NoKeys ELSE AbsInsert(AbsFromList(l, i - 1), l[i][1], l[i][2], FALSE)
AbsSize(c) == Cardinality({i \in DOMAIN c : c[i] # 0})

MapApply(r) ==
  /\ hnode' = r.S.hnode
  /\ act' = r.S.act
  /\ entry' = r.S.entry
  /\ maps' = r.S.maps
  /\ UNCHANGED <<node, arr, order, lnode, lists, work>>

\* a call that returns a map: h is the abstract view of the result
MapReturns(op, m, arg, r, h) ==
  /\ MapApply(r)
  /\ last' = Call(op, m, arg, r, IF r.exc = NoExc THEN r.res ELSE 0)
  /\ hist' = IF r.exc = NoExc THEN Append(hist, h) ELSE hist

CanMakeMap == Len(maps) < MaxMaps

\* PersistentHashMap{...} / PersistentHashMap{}
InitMap ==
  \E l \in InitMaps :
    LET S0 == mapFromList([hnode |-> <<>>, act |-> <<>>, entry |-> <<>>,
                           maps |-> <<MapObj(0, 0, Manager(0, 0))>>], l, 1)
    IN /\ hnode = S0.hnode
       /\ act = S0.act
       /\ entry = S0.entry
       /\ maps = S0.maps
       /\ node = <<>>
       /\ arr = <<>>
       /\ order = NoOrder
       /\ lnode = <<>>
       /\ lists = <<>>
       /\ work = <<>>
       /\ hist = <<Born(AbsFromList(l, Len(l)))>>
       /\ last = [op |-> "construct", recv |-> 0, arg |-> <<>>, exc |-> NoExc, res |-> 1,
                  made |-> 1]

MapInsert ==
  \E m \in DOMAIN maps, k \in Keys, vr \in InsertArgs :
    /\ maps[m].live /\ CanMakeMap
    /\ LET r == mapInsert(MState, m, k, vr[1], vr[2])
       IN MapReturns("insert", m, <<k, vr[1], vr[2]>>, r,
                     Mutated(hist[m], AbsInsert(hist[m].content, k, vr[1], vr[2])))

MapErase ==
  \E m \in DOMAIN maps, k \in Keys :
    /\ maps[m].live /\ CanMakeMap
    /\ LET r == mapErase(MState, m, k)
       IN MapReturns("erase", m, <<k>>, r, Mutated(hist[m], AbsErase(hist[m].content, k)))

MapUndo ==
  \E m \in DOMAIN maps :
    /\ maps[m].live /\ CanMakeMap
    /\ LET r == mapUndo(MState, m)
       IN MapReturns("undo", m, <<>>, r, Undone(hist[m]))

MapRedo ==
  \E m \in DOMAIN maps :
    /\ maps[m].live /\ CanMakeMap
    /\ LET r == mapRedo(MState, m)
       IN MapReturns("redo", m, <<>>, r, Redone(hist[m]))

\* find, contains, iteration and comparison read the trie and change nothing
MapFind ==
  \E m \in DOMAIN maps, k \in Keys :
    /\ maps[m].live
    /\ mapFind(MState, m, k).found = mapContains(MState, m, k)
    /\ UNCHANGED vars

MapEqual ==
  \E a \in DOMAIN maps, b \in DOMAIN maps :
    /\ maps[a].live /\ maps[b].live
    /\ mapEqual(MState, a, b) \in BOOLEAN
    /\ UNCHANGED vars

\* the receiver of the most recent call was a temporary: it is destroyed once
\* the call has returned its map
MapDestroy ==
  /\ last.exc = NoExc /\ last.made # 0 /\ last.recv # 0
  /\ last.recv \in DOMAIN maps /\ maps[last.recv].live
  /\ MapApply(Ret(mapDtor(MState, last.recv), NoExc, 0))
  /\ last' = [op |-> "destroy", recv |-> last.recv, arg |-> <<>>, exc |-> NoExc,
              res |-> 0, made |-> 0]
  /\ UNCHANGED hist

NextMap ==
  \/ MapInsert
  \/ MapErase
  \/ MapUndo
  \/ MapRedo
  \/ MapFind
  \/ MapEqual
  \/ MapDestroy

SpecMap == InitMap /\ [][NextMap]_vars

\* ------------------------------------------------ PersistenceListOrder
\* The weights are doubles in [-weight_border, weight_border].  The model
\* holds them as integers in a unit in which the thirds taken by add are
\* exact for every depth it reaches (rounding never changes the order of two
\* weights at these depths), so less answers as the code's doubles do.
\* Only the order on its own (SpecOrder) adds versions until a third is
\* smaller than the unit and is lost; the code loses it when it is smaller
\* than the spacing of the doubles near weight_border, which takes more adds.
weight_border == 3^18

\* a read that cannot be carried out yields one of these instead of a value,
\* a node or an index: a failed CONTRACT_EXPECT, undefined behaviour (a null
\* or wild pointer dereferenced, begin() decremented), a thrown std::exception
BadPre == 0 - 1
BadUB == 0 - 2
BadStd == 0 - 3
Undefined == "undefined behaviour"
StdException == "std::exception"

\* the order object is list, weight_true and weight_reverse (index v of a
\* vector is index v + 1 of the sequence); handles[v] is the place of v in list

\* the place a handle points at: handles[0] is handles[1]
handle(O, v) == CHOOSE i \in DOMAIN O.list : O.list[i] = (IF v = 0 THEN 1 ELSE v)

weightOf(O, v) == IF v < 0 THEN O.weight_reverse[1 - v] ELSE O.weight_true[v + 1]

\* the renumbering pass of add: cur runs from -weight_border in equal steps
RECURSIVE renumber(_, _, _, _)
renumber(O, i, cur, step) ==
  IF i > Len(O.list) THEN O
  ELSE LET v == O.list[i]
           O1 == IF v < 0 THEN [O EXCEPT !.weight_reverse[1 - v] = cur]
                          ELSE [O EXCEPT !.weight_true[v + 1] = cur]
       IN renumber(O1, i + 1, cur + step, step)

\* PersistenceListOrder::add: the order after the call and the new version
orderAdd(O, parent) ==
  IF Len(O.list) = 0
  THEN [O |-> [list |-> <<1, 0 - 1>>,
               weight_true |-> <<0 - weight_border, 0 - weight_border>>,
               weight_reverse |-> <<weight_border, weight_border>>],
        res |-> 1]
  ELSE IF ~(parent <= Len(O.weight_true)) THEN [O |-> O, res |-> BadPre]
  ELSE LET at == handle(O, parent)
           parent_value == O.weight_true[parent + 1]
           next_parent == O.list[at + 1]
           next_parent_value == weightOf(O, next_parent)
           new_version == Len(O.weight_true)
           true_weight == parent_value + (next_parent_value - parent_value) \div 3
           true_reverse == parent_value + (2 * (next_parent_value - parent_value)) \div 3
           O1 == [list |-> SubSeq(O.list, 1, at) \o <<new_version, 0 - new_version>>
                           \o SubSeq(O.list, at + 1, Len(O.list)),
                  weight_true |-> Append(O.weight_true, true_weight),
                  weight_reverse |-> Append(O.weight_reverse, true_reverse)]
       IN [O |-> IF true_weight = true_reverse
                   THEN renumber(O1, 1, 0 - weight_border,
                                 weight_border \div Len(O1.weight_true))
                   ELSE O1,
           res |-> new_version]

\* PersistenceListOrder::less (both versions are recorded ones)
less(O, l, r) == weightOf(O, l) < weightOf(O, r)

\* ------------------------------------------------ PersistenceListNode
MAX_SIZE_FAT_NODE == 10

\* a std::map ordered by less is the sequence of its <<key, value>> entries,
\* first entry first; two keys neither of which is less are one key
lower_bound(O, m, k) == 1 + Cardinality({i \in DOMAIN m : less(O, m[i][1], k)})
upper_bound(O, m, k) == 1 + Cardinality({i \in DOMAIN m : ~less(O, k, m[i][1])})
mapHas(O, m, k) == lower_bound(O, m, k) # upper_bound(O, m, k)

\* m[k] = x
mapPut(O, m, k, x) ==
  LET at == lower_bound(O, m, k)
  IN IF mapHas(O, m, k) THEN [m EXCEPT ![at] = <<m[at][1], x>>]
     ELSE SubSeq(m, 1, at - 1) \o <<<<k, x>>>> \o SubSeq(m, at, Len(m))

\* it = m.upper_bound(version); --it; it->second.  Decrementing begin() is
\* undefined.
mapAt(O, m, version) ==
  IF m = <<>> THEN BadPre
  ELSE IF upper_bound(O, m, version) = 1 THEN BadUB
  ELSE m[upper_bound(O, m, version) - 1][2]

\* one statement after another: e is worked out once and named for the
\* statements F that follow it
Bind(e, F(_)) == F(e)

\* the list world the operations work on: the shared order, the heap of
\* nodes, the list objects, the history cells, and the exception under way
\* (once one is under way, no later statement of the call has any effect)
Thrown(L, x) ==
  IF L.exc # NoExc \/ x >= 0 THEN L
  ELSE [L EXCEPT !.exc = IF x = BadPre THEN PreConditionFailure
                         ELSE IF x = BadStd THEN StdException ELSE Undefined]

\* dereferencing p: a null pointer is undefined behaviour
deref(p) == IF p = 0 THEN BadUB ELSE p

\* PersistenceListNode::find / getNext / getLast
nodeFind(L, p, version) ==
  IF p <= 0 THEN deref(p) ELSE mapAt(L.order, L.lnode[p].value_, version)
getNext(L, p, version) ==
  IF p <= 0 THEN deref(p) ELSE mapAt(L.order, L.lnode[p].next_, version)
getLast(L, p, version) ==
  IF p <= 0 THEN deref(p) ELSE mapAt(L.order, L.lnode[p].last_, version)

\* PersistenceListNode::canSetNext / canSetLast (a call through a pointer
\* that cannot be dereferenced ends the loop asking; the write after the loop
\* then raises)
canSetNext_always(L, p) == TRUE

canSetNext(L, p) ==
  p <= 0 \/ Len(L.lnode[p].value_) = 0 \/ Len(L.lnode[p].next_) < MAX_SIZE_FAT_NODE

canSetLast(L, p) ==
  p <= 0 \/ Len(L.lnode[p].value_) = 0 \/ Len(L.lnode[p].last_) < MAX_SIZE_FAT_NODE

\* add on a full node reporting the value taken without storing it
nodeAdd_silent(L, p, version, v) ==
  IF L.exc # NoExc THEN [L |-> L, res |-> FALSE]
  ELSE IF p <= 0 \/ v < 0
    THEN [L |-> Thrown(Thrown(L, deref(p)), v), res |-> FALSE]
  ELSE IF Len(L.lnode[p].value_) >= MAX_SIZE_FAT_NODE THEN [L |-> L, res |-> TRUE]
  ELSE [L |-> [L EXCEPT !.lnode[p].value_ = mapPut(L.order, @, version, v)],
        res |-> TRUE]

\* PersistenceListNode::add: res tells whether the value was taken
nodeAdd(L, p, version, v) ==
  IF L.exc # NoExc THEN [L |-> L, res |-> FALSE]
  ELSE IF p <= 0 \/ v < 0
    THEN [L |-> Thrown(Thrown(L, deref(p)), v), res |-> FALSE]
  ELSE IF Len(L.lnode[p].value_) >= MAX_SIZE_FAT_NODE THEN [L |-> L, res |-> FALSE]
  ELSE [L |-> [L EXCEPT !.lnode[p].value_ = mapPut(L.order, @, version, v)],
        res |-> TRUE]

\* PersistenceListNode::setNext / setLast (callers drop the bool returned):
\* a write refused is no write at all
\* setNext refusing a full node even at a version it holds
setNext_strict(L, p, version, next_n) ==
  IF L.exc # NoExc THEN L
  ELSE IF p <= 0 \/ next_n < 0 THEN Thrown(Thrown(L, deref(p)), next_n)
  ELSE IF ~canSetNext(L, p) THEN L
  ELSE [L EXCEPT !.lnode[p].next_ = mapPut(L.order, @, version, next_n)]

setNext(L, p, version, next_n) ==
  IF L.exc # NoExc THEN L
  ELSE IF p <= 0 \/ next_n < 0 THEN Thrown(Thrown(L, deref(p)), next_n)
  ELSE IF ~canSetNext(L, p) /\ ~mapHas(L.order, L.lnode[p].next_, version) THEN L
  ELSE [L EXCEPT !.lnode[p].next_ = mapPut(L.order, @, version, next_n)]

setLast(L, p, version, last_n) ==
  IF L.exc # NoExc THEN L
  ELSE IF p <= 0 \/ last_n < 0 THEN Thrown(Thrown(L, deref(p)), last_n)
  ELSE IF ~canSetLast(L, p) /\ ~mapHas(L.order, L.lnode[p].last_, version) THEN L
  ELSE [L EXCEPT !.lnode[p].last_ = mapPut(L.order, @, version, last_n)]

\* PersistenceListNode::copyNextAfter / copyLastAfter: the entries of src from
\* lower_bound(version) on, entry i first
RECURSIVE copyNextAfter(_, _, _, _)
copyNextAfter(L, p, src, i) ==
  IF L.exc # NoExc \/ i > Len(L.lnode[src].next_) THEN L
  ELSE copyNextAfter(
         [L EXCEPT !.lnode[p].next_ =
            mapPut(L.order, @, L.lnode[src].next_[i][1], L.lnode[src].next_[i][2])],
         p, src, i + 1)

RECURSIVE copyLastAfter(_, _, _, _)
copyLastAfter(L, p, src, i) ==
  IF L.exc # NoExc \/ i > Len(L.lnode[src].last_) THEN L
  ELSE copyLastAfter(
         [L EXCEPT !.lnode[p].last_ =
            mapPut(L.order, @, L.lnode[src].last_[i][1], L.lnode[src].last_[i][2])],
         p, src, i + 1)

\* std::make_shared<PersistenceListNode>(version, value, last, next, cmp);
\* the arguments are read before the node is made, so a read that raised
\* leaves no node behind
newNode(L, version, v, last_n, next_n) ==
  LET L0 == Thrown(Thrown(Thrown(L, v), last_n), next_n)
  IN IF L0.exc # NoExc THEN [L |-> L0, p |-> BadUB]
     ELSE [L |-> [L0 EXCEPT !.lnode = Append(@, [next_ |-> <<<<version, next_n>>>>,
                                                  last_ |-> <<<<version, last_n>>>>,
                                                  value_ |-> <<<<version, v>>>>])],
           p |-> Len(L0.lnode) + 1]

\* the constructor for head_ and tail_: no value
newSentinel(L, version, last_n, next_n) ==
  [L |-> [L EXCEPT !.lnode = Append(@, [next_ |-> <<<<version, next_n>>>>,
                                        last_ |-> <<<<version, last_n>>>>,
                                        value_ |-> <<>>])],
   p |-> Len(L.lnode) + 1]

\* the two loops of makeNewNode and dropNode; rv is the version the loop
\* reads the neighbours at (version itself in makeNewNode, old_version in
\* dropNode).  Each ends with its two closing writes.
RECURSIVE splitBack(_, _, _, _, _)
splitBack(L, version, rv, cur_last, cur_next) ==
  IF L.exc # NoExc THEN L
  ELSE IF ~canSetNext(L, cur_last)
    THEN Bind(newNode(L, version, nodeFind(L, cur_last, rv),
                      getLast(L, cur_last, rv), cur_next), LAMBDA n :
         Bind(IF n.L.exc # NoExc THEN n.L
              ELSE copyNextAfter(n.L, n.p, cur_last,
                                 lower_bound(L.order, L.lnode[cur_last].next_, version)),
              LAMBDA L1 :
         Bind(setNext(L1, getLast(L1, cur_last, rv), version, n.p), LAMBDA L2 :
         Bind(setLast(L2, cur_next, version, n.p), LAMBDA L3 :
         splitBack(L3, version, rv, getLast(L3, cur_last, rv), n.p)))))
  ELSE setLast(setNext(L, cur_last, version, cur_next), cur_next, version, cur_last)

RECURSIVE splitForth(_, _, _, _, _)
splitForth(L, version, rv, cur_last, cur_next) ==
  IF L.exc # NoExc THEN L
  ELSE IF ~canSetLast(L, cur_next)
    THEN Bind(newNode(L, version, nodeFind(L, cur_next, rv), cur_last,
                      getNext(L, cur_next, rv)), LAMBDA n :
         Bind(IF n.L.exc # NoExc THEN n.L
              ELSE copyLastAfter(n.L, n.p, cur_next,
                                 lower_bound(L.order, L.lnode[cur_next].last_, version)),
              LAMBDA L1 :
         Bind(setLast(L1, getNext(L1, cur_next, rv), version, n.p), LAMBDA L2 :
         Bind(setNext(L2, cur_last, version, n.p), LAMBDA L3 :
         splitForth(L3, version, rv, n.p, getNext(L3, cur_next, rv))))))
  ELSE setLast(setNext(L, cur_last, version, cur_next), cur_next, version, cur_last)

\* PersistentList::makeNewNode
makeNewNode(L, version, v, last_n, next_n) ==
  Bind(newNode(Thrown(Thrown(L, last_n), next_n), version, v, 0, 0), LAMBDA n :
  splitForth(splitBack(n.L, version, version, last_n, n.p), version, version, n.p, next_n))

\* PersistentList::dropNode
dropNode(L, version, old_version, new_node) ==
  Bind(splitBack(L, version, old_version, getLast(L, new_node, old_version),
                 getNext(L, new_node, old_version)), LAMBDA L1 :
  splitForth(L1, version, old_version, getLast(L1, new_node, old_version),
             getNext(L1, new_node, old_version)))

\* PersistentList::findNodeByIndex(version, index): the walk from head_
RECURSIVE walk(_, _, _, _)
walk(L, version, ptr, n) ==
  IF ptr = 0 THEN BadStd
  ELSE IF ptr < 0 \/ n = 0 THEN ptr
  ELSE walk(L, version, getNext(L, ptr, version), n - 1)

\* (index >= size_ compares as unsigned: a negative index is a huge one)
findNodeByIndex(L, l, version, index) ==
  IF index < 0 \/ index >= L.lists[l].size THEN BadStd
  ELSE walk(L, version, L.lists[l].head, index + 1)

\* ---------------------------------------------------------- PersistentList
MaxLists == 3
MaxVersions == 5

\* the initializer lists lists are constructed from, and the values and
\* indexes the calls are made with
InitSeqs == {<<>>, <<1, 2>>}
ListVals == {9}
MaxIdx == 2

LState == [order |-> order, lnode |-> lnode, lists |-> lists, act |-> act,
           entry |-> entry, exc |-> NoExc]

\* a list object: version_, head_, tail_, size_ and its manager's stacks
\* (listOrder_ is the one shared order)
ListObj(version, head, tail, size, m) ==
  [version |-> version, head |-> head, tail |-> tail, size |-> size,
   undo |-> m.undo, redo |-> m.redo, live |-> TRUE]

\* the outcome of a call on the list world: an exception under way becomes
\* the call's outcome, and what the call had written by then stays written
ListRet(L, res) ==
  [S |-> [L EXCEPT !.exc = NoExc], exc |-> L.exc, res |-> IF L.exc = NoExc THEN res ELSE 0]

\* PersistentList::getChildren: the undo thunk captures (version_, size_),
\* the redo thunk (new_version, size); head_, tail_ and listOrder_ are shared
getChildren(L, l, new_version, size) ==
  IF L.exc # NoExc THEN ListRet(L, 0)
  ELSE LET X == L.lists[l]
           ac == [uVersion |-> X.version, uSize |-> X.size,
                  rVersion |-> new_version, rSize |-> size]
           L1 == [L EXCEPT !.act = Append(@, ac)]
           p == pushUndo(L1.entry, undoManager(X), Len(L1.act))
           L2 == [L1 EXCEPT !.entry = p.entry,
                            !.lists = Append(@, ListObj(new_version, X.head, X.tail,
                                                        size, p.mgr))]
       IN ListRet(L2, Len(L2.lists))

\* listOrder_->add(version_) as a statement of a call
addVersion(L, parent) ==
  IF L.exc # NoExc THEN [L |-> L, res |-> 0]
  ELSE LET a == orderAdd(L.order, parent)
       IN [L |-> Thrown([L EXCEPT !.order = a.O], a.res), res |-> a.res]

\* PersistentList::find
listFind(L, l, index) ==
  Bind(findNodeByIndex(L, l, L.lists[l].version, index), LAMBDA ptr :
  Bind(nodeFind(Thrown(L, ptr), ptr, L.lists[l].version), LAMBDA v :
  ListRet(Thrown(Thrown(L, ptr), v), v)))

\* PersistentList::set
listSet(L, l, index, v) ==
  Bind(L.lists[l].version, LAMBDA version_ :
  Bind(findNodeByIndex(L, l, version_, index), LAMBDA ptr :
  Bind(addVersion(Thrown(L, ptr), version_), LAMBDA a :
  Bind(nodeAdd(a.L, ptr, a.res, v), LAMBDA r1 :
  Bind(IF r1.res \/ r1.L.exc # NoExc THEN r1.L
       ELSE makeNewNode(r1.L, a.res, v, getLast(r1.L, ptr, version_),
                        getNext(r1.L, ptr, version_)), LAMBDA L2 :
  Bind(nodeAdd(L2, ptr, 0 - a.res, nodeFind(L2, ptr, version_)), LAMBDA r2 :
  Bind(IF r2.res \/ r2.L.exc # NoExc THEN r2.L
       ELSE makeNewNode(r2.L, 0 - a.res, nodeFind(r2.L, ptr, version_),
                        getLast(r2.L, ptr, version_), getNext(r2.L, ptr, version_)),
       LAMBDA L3 :
  getChildren(L3, l, a.res, L.lists[l].size))))))))

\* PersistentList::erase
listErase(L, l, index) ==
  Bind(L.lists[l].version, LAMBDA version_ :
  Bind(findNodeByIndex(L, l, version_, index), LAMBDA ptr :
  Bind(getLast(Thrown(L, ptr), ptr, version_), LAMBDA last_n :
  Bind(getNext(Thrown(L, ptr), ptr, version_), LAMBDA next_n :
  Bind(addVersion(Thrown(Thrown(Thrown(L, ptr), last_n), next_n), version_), LAMBDA a :
  Bind(dropNode(a.L, a.res, version_, ptr), LAMBDA L1 :
  Bind(findNodeByIndex(L1, l, version_, index), LAMBDA ptr1 :
  Bind(makeNewNode(Thrown(L1, ptr1), 0 - a.res,
                   nodeFind(Thrown(L1, ptr1), ptr1, version_), last_n, next_n),
       LAMBDA L3 :
  getChildren(L3, l, a.res, L.lists[l].size - 1)))))))))

\* PersistentList::insert: the new version is recorded before the index is
\* looked at
listInsert(L, l, index, v) ==
  Bind(L.lists[l].version, LAMBDA version_ :
  Bind(addVersion(L, version_), LAMBDA a :
  Bind(findNodeByIndex(a.L, l, version_, index), LAMBDA ptr :
  Bind(getLast(Thrown(a.L, ptr), ptr, version_), LAMBDA last_n :
  Bind(makeNewNode(Thrown(Thrown(a.L, ptr), last_n), a.res, v, last_n, ptr), LAMBDA L1 :
  Bind(findNodeByIndex(L1, l, a.res, index), LAMBDA ptr1 :
  Bind(dropNode(Thrown(L1, ptr1), 0 - a.res, a.res, ptr1), LAMBDA L2 :
  getChildren(L2, l, a.res, L.lists[l].size + 1))))))))

\* PersistentList::pushFront
listPushFront(L, l, v) == listInsert(L, l, 0, v)

\* PersistentList::pushBack
listPushBack(L, l, v) ==
  Bind(L.lists[l].version, LAMBDA version_ :
  Bind(addVersion(L, version_), LAMBDA a :
  Bind(getLast(a.L, L.lists[l].tail, version_), LAMBDA last_n :
  Bind(makeNewNode(Thrown(a.L, last_n), a.res, v, last_n, L.lists[l].tail), LAMBDA L1 :
  Bind(getLast(L1, L.lists[l].tail, a.res), LAMBDA ptr1 :
  Bind(dropNode(Thrown(L1, ptr1), 0 - a.res, a.res, ptr1), LAMBDA L2 :
  getChildren(L2, l, a.res, L.lists[l].size + 1)))))))

\* PersistentList::popFront / popBack (size_ - 1 of an empty list is no index)
listPopFront(L, l) == listErase(L, l, 0)
listPopBack(L, l) == listErase(L, l, L.lists[l].size - 1)

\* UndoablePersistentCollection::undo / redo for a list
listUndo(L, l) ==
  LET u == undo(L.entry, undoManager(L.lists[l])) IN
  IF u.exc # NoExc THEN ListRet([L EXCEPT !.exc = u.exc], 0)
  ELSE LET ac == L.act[u.action]
           L1 == [L EXCEPT !.entry = u.entry,
                           !.lists = Append(@, ListObj(ac.uVersion, L.lists[l].head,
                                                       L.lists[l].tail, ac.uSize, u.mgr))]
       IN ListRet(L1, Len(L1.lists))

listRedo(L, l) ==
  LET u == redo(L.entry, undoManager(L.lists[l])) IN
  IF u.exc # NoExc THEN ListRet([L EXCEPT !.exc = u.exc], 0)
  ELSE LET ac == L.act[u.action]
           L1 == [L EXCEPT !.entry = u.entry,
                           !.lists = Append(@, ListObj(ac.rVersion, L.lists[l].head,
                                                       L.lists[l].tail, ac.rSize, u.mgr))]
       IN ListRet(L1, Len(L1.lists))

\* PersistentList(std::initializer_list): the nodes of version 1 chained
\* from head_, ptr the node made last
RECURSIVE chain(_, _, _, _)
chain(L, v, i, ptr) ==
  IF i > Len(v) THEN [L |-> L, p |-> ptr]
  ELSE LET fatNode == newNode(L, 1, v[i], ptr, 0)
           L1 == setLast(setNext(fatNode.L, ptr, 1, fatNode.p), fatNode.p, 1, ptr)
       IN chain(L1, v, i + 1, fatNode.p)

\* PersistentList() / PersistentList{...}: for an empty initializer list the
\* two constructors build the same thing
listCtor(v) ==
  LET L0 == [order |-> orderAdd(NoOrder, 0).O, lnode |-> <<>>, lists |-> <<>>,
             act |-> <<>>, entry |-> <<>>, exc |-> NoExc]
      head_ == newSentinel(L0, 1, 0, 0)
      c == chain(head_.L, v, 1, head_.p)
      tail_ == newSentinel(c.L, 1, c.p, 0)
      L1 == setNext(tail_.L, c.p, 1, tail_.p)
  IN [L1 EXCEPT !.lists = <<ListObj(1, head_.p, tail_.p, Len(v), Manager(0, 0))>>]

\* ~PersistentList: the manager's stacks (redoStack_, then undoStack_); the
\* nodes hold each other through next_ and last_ and stay
FreedListAct == [uVersion |-> 0, uSize |-> 0, rVersion |-> 0, rSize |-> 0]

LiveListEntries(L) ==
  UNION {ChainSet(L.entry, L.lists[l].undo) \cup ChainSet(L.entry, L.lists[l].redo)
           : l \in {x \in DOMAIN L.lists : L.lists[x].live}}

listDtor(L, l) ==
  LET E1 == StackDtor(StackDtor(L.entry, L.lists[l].redo), L.lists[l].undo)
      L1 == [L EXCEPT !.entry = E1,
                      !.lists[l] = [version |-> 0, head |-> 0, tail |-> 0, size |-> 0,
                                    undo |-> 0, redo |-> 0, live |-> FALSE]]
      liveE == LiveListEntries(L1)
  IN [L1 EXCEPT
        !.act = FreeAll(@, DOMAIN L1.act \ {L1.entry[e].action : e \in liveE}, FreedListAct),
        !.entry = FreeAll(@, DOMAIN L1.entry \ liveE, FreedEntry)]

\* ------------------------------------------------ lists: abstract view, actions
\* hist[l].content of a list is the sequence it must hold

InsertAt(c, i, v) == SubSeq(c, 1, i) \o <<v>> \o SubSeq(c, i + 1, Len(c))
EraseAt(c, i) == SubSeq(c, 1, i) \o SubSeq(c, i + 2, Len(c))
SetAt(c, i, v) == IF i < Len(c) THEN [c EXCEPT ![i + 1] = v] ELSE c

ListApply(r) ==
  /\ order' = r.S.order
  /\ lnode' = r.S.lnode
  /\ lists' = r.S.lists
  /\ act' = r.S.act
  /\ entry' = r.S.entry
  /\ UNCHANGED <<node, arr, hnode, maps, work>>

\* a call that returns a list: h is the abstract view of the result
ListReturns(op, l, arg, r, h) ==
  /\ ListApply(r)
  /\ last' = Call(op, l, arg, r, IF r.exc = NoExc THEN r.res ELSE 0)
  /\ hist' = IF r.exc = NoExc THEN Append(hist, h) ELSE hist

CanMakeList == Len(lists) < MaxLists /\ Len(order.weight_true) <= MaxVersions

InitList ==
  \E v \in InitSeqs :
    LET L0 == listCtor(v)
    IN /\ order = L0.order
       /\ lnode = L0.lnode
       /\ lists = L0.lists
       /\ work = <<>>
       /\ act = L0.act
       /\ entry = L0.entry
       /\ node = <<>>
       /\ arr = <<>>
       /\ hnode = <<>>
       /\ maps = <<>>
       /\ hist = <<Born(v)>>
       /\ last = [op |-> "construct", recv |-> 0, arg |-> <<>>, exc |-> NoExc, res |-> 1,
                  made |-> 1]

ListSet ==
  \E l \in DOMAIN lists, i \in 0..MaxIdx, v \in ListVals :
    /\ lists[l].live /\ CanMakeList
    /\ ListReturns("set", l, <<i, v>>, listSet(LState, l, i, v),
                   Mutated(hist[l], SetAt(hist[l].content, i, v)))

ListErase ==
  \E l \in DOMAIN lists, i \in 0..MaxIdx :
    /\ lists[l].live /\ CanMakeList
    /\ ListReturns("erase", l, <<i>>, listErase(LState, l, i),
                   Mutated(hist[l], EraseAt(hist[l].content, i)))

ListInsert ==
  \E l \in DOMAIN lists, i \in 0..MaxIdx, v \in ListVals :
    /\ lists[l].live /\ CanMakeList
    /\ ListReturns("insert", l, <<i, v>>, listInsert(LState, l, i, v),
                   Mutated(hist[l], InsertAt(hist[l].content, i, v)))

ListPushFront ==
  \E l \in DOMAIN lists, v \in ListVals :
    /\ lists[l].live /\ CanMakeList
    /\ ListReturns("pushFront", l, <<v>>, listPushFront(LState, l, v),
                   Mutated(hist[l], <<v>> \o hist[l].content))

ListPushBack ==
  \E l \in DOMAIN lists, v \in ListVals :
    /\ lists[l].live /\ CanMakeList
    /\ ListReturns("pushBack", l, <<v>>, listPushBack(LState, l, v),
                   Mutated(hist[l], Append(hist[l].content, v)))

ListPopFront ==
  \E l \in DOMAIN lists :
    /\ lists[l].live /\ CanMakeList
    /\ ListReturns("popFront", l, <<>>, listPopFront(LState, l),
                   Mutated(hist[l], EraseAt(hist[l].content, 0)))

ListPopBack ==
  \E l \in DOMAIN lists :
    /\ lists[l].live /\ CanMakeList
    /\ ListReturns("popBack", l, <<>>, listPopBack(LState, l),
                   Mutated(hist[l], Front(hist[l].content)))

ListUndo ==
  \E l \in DOMAIN lists :
    /\ lists[l].live /\ CanMakeList
    /\ ListReturns("undo", l, <<>>, listUndo(LState, l), Undone(hist[l]))

ListRedo ==
  \E l \in DOMAIN lists :
    /\ lists[l].live /\ CanMakeList
    /\ ListReturns("redo", l, <<>>, listRedo(LState, l), Redone(hist[l]))

\* find reads the nodes and changes nothing
ListFind ==
  \E l \in DOMAIN lists, i \in 0..MaxIdx :
    /\ lists[l].live
    /\ listFind(LState, l, i).S = LState
    /\ UNCHANGED vars

\* the receiver of the most recent call was a temporary: it is destroyed once
\* the call has returned its list
ListDestroy ==
  /\ last.exc = NoExc /\ last.made # 0 /\ last.recv # 0
  /\ last.recv \in DOMAIN lists /\ lists[last.recv].live
  /\ ListApply(ListRet(listDtor(LState, last.recv), 0))
  /\ last' = [op |-> "destroy", recv |-> last.recv, arg |-> <<>>, exc |-> NoExc,
              res |-> 0, made |-> 0]
  /\ UNCHANGED hist

NextList ==
  \/ ListSet
  \/ ListErase
  \/ ListInsert
  \/ ListPushFront
  \/ ListPushBack
  \/ ListPopFront
  \/ ListPopBack
  \/ ListUndo
  \/ ListRedo
  \/ ListFind
  \/ ListDestroy

SpecList == InitList /\ [][NextList]_vars

\* ------------------------------------------------------------ observations

StateNext == [node |-> node', act |-> act', entry |-> entry', arr |-> arr']

\* what a client reads from array a: size(), then value(0), value(1), ...
\* one after the other (each read may re-root the tree for the next)
RECURSIVE elements(_, _, _)
elements(S, a, i) ==
  IF ~(i < S.arr[a].size) THEN <<>>
  ELSE LET r == value(S, a, i)
       IN <<[exc |-> r.exc, res |-> r.res]>> \o elements(r.S, a, i + 1)

Observed(S, a) == [size |-> S.arr[a].size, reads |-> elements(S, a, 0)]

\* the same for an abstract content
RECURSIVE Reads(_)
Reads(c) == IF c = <<>> THEN <<>> ELSE <<[exc |-> NoExc, res |-> Head(c)]>> \o Reads(Tail(c))

Holds(c) == [size |-> Len(c), reads |-> Reads(c)]

\* the actions a stack holds, top first
RECURSIVE StackActs(_, _)
StackActs(E, t) == IF t = 0 THEN <<>> ELSE <<E[t].action>> \o StackActs(E, E[t].next)

Mutators == {"setValue", "pushBack", "popBack"}

\* the most recent call returned an array (its receiver is still alive)
Made == last.exc = NoExc /\ last.made # 0 /\ last.recv # 0

\* the tree has been re-rooted: its root is a node that was born a change-set
\* (node 1 is the only node makeRoot ever makes)
ReRooted == \E n \in DOMAIN node : n # 1 /\ node[n].root

\* --------------------------------------------------------------- C1
\* C1: no step (setValue, pushBack, popBack, undo, redo, a read that re-roots
\* the tree, a comparison, the destruction of another array) changes what a
\* live array reports: its size() and its value(i) for every i < size().
PArrayPersistence ==
  [][\A a \in DOMAIN arr :
       (arr[a].live /\ arr'[a].live) => Observed(StateNext, a) = Observed(State, a)]_vars

\* a re-rooted tree shared by two live arrays of different content, one of
\* them hanging off a change-set
PArrayPersistenceWitness ==
  /\ ReRooted
  /\ \E a \in DOMAIN arr, b \in DOMAIN arr :
       /\ arr[a].live /\ arr[b].live
       /\ arr[a].node # 0 /\ arr[b].node # 0
       /\ node[arr[a].node].root /\ ~node[arr[b].node].root
       /\ hist[a].content # hist[b].content

\* --------------------------------------------------------------- C5
\* C5: when a mutation (a pushUndo) is applied to a collection whose manager
\* has redo entries, the manager of the result has hasRedo() = FALSE and
\* redo() on the result raises a precondition failure.
HistoryInvalidation ==
  (Made /\ last.op \in Mutators) =>
     /\ ~hasRedo(undoManager(arr[last.made]))
     /\ redo(entry, undoManager(arr[last.made])).exc = PreConditionFailure
     /\ arrRedo(State, last.made) = Ret(State, PreConditionFailure, 0)

\* a mutation of an array obtained through undo: the receiver has redo entries
HistoryInvalidationWitness ==
  Made /\ last.op \in Mutators /\ hasRedo(undoManager(arr[last.recv]))

\* --------------------------------------------------------------- C7
\* C7: undo() returns the array the top action's undo thunk makes (its size
\* and node) with a manager whose undo stack is the receiver's without its top
\* and whose redo stack is the receiver's with that action pushed; redo() is
\* the mirror image with the redo thunk.
UndoRedoMechanics ==
  LET R == arr[last.recv]
      M == arr[last.made]
  IN /\ (Made /\ last.op = "undo") =>
          LET a == top(entry, R.undo)
          IN /\ StackActs(entry, M.undo) = Tail(StackActs(entry, R.undo))
             /\ StackActs(entry, M.redo) = <<a>> \o StackActs(entry, R.redo)
             /\ M.size = act[a].uSize /\ M.node = act[a].uNode
     /\ (Made /\ last.op = "redo") =>
          LET a == top(entry, R.redo)
          IN /\ StackActs(entry, M.redo) = Tail(StackActs(entry, R.redo))
             /\ StackActs(entry, M.undo) = <<a>> \o StackActs(entry, R.undo)
             /\ M.size = act[a].rSize /\ M.node = act[a].rNode

\* an undo whose receiver had two actions to undo: the pop leaves one
UndoRedoMechanicsWitness ==
  /\ Made /\ last.op = "undo"
  /\ Len(StackActs(entry, arr[last.recv].undo)) >= 2
  /\ hasUndo(undoManager(arr[last.made]))

\* --------------------------------------------------------------- C8
\* C8: undo() on an array with an empty undo history raises a precondition
\* failure and changes nothing, and so does redo() with an empty redo history.
EmptyHistoryFails ==
  /\ \A a \in DOMAIN arr :
       arr[a].live =>
         /\ ~hasUndo(undoManager(arr[a])) =>
               arrUndo(State, a) = Ret(State, PreConditionFailure, 0)
         /\ ~hasRedo(undoManager(arr[a])) =>
               arrRedo(State, a) = Ret(State, PreConditionFailure, 0)
  /\ (last.op \in {"undo", "redo"} /\ last.exc # NoExc) =>
       /\ last.exc = PreConditionFailure /\ last.made = 0
       /\ IF last.op = "undo" THEN ~hasUndo(undoManager(arr[last.recv]))
          ELSE ~hasRedo(undoManager(arr[last.recv]))

\* an undo() refused on an array that has elements and no history
EmptyHistoryFailsWitness ==
  /\ last.op = "undo" /\ last.exc = PreConditionFailure
  /\ arr[last.recv].size > 0 /\ Len(arr) > 1

\* --------------------------------------------------------------- C10
\* C10: in every reachable state, however the tree has been re-rooted by
\* earlier reads, value(i) of a live array is its element i, and operator==
\* on two live arrays (either operand read first) is TRUE exactly when they
\* have the same size and the same elements.
ReRootingTransparency ==
  \A a \in DOMAIN arr :
    arr[a].live =>
      /\ Observed(State, a) = Holds(hist[a].content)
      /\ \A b \in DOMAIN arr, lhsFirst \in BOOLEAN :
           arr[b].live =>
             LET r == arrEqual(State, a, b, lhsFirst)
             IN /\ r.exc = NoExc
                /\ r.res = (hist[a].content = hist[b].content)
                /\ Observed(r.S, a) = Observed(State, a)
                /\ Observed(r.S, b) = Observed(State, b)

\* a re-rooted tree holding two distinct equal arrays and two of the same
\* size that differ
ReRootingTransparencyWitness ==
  /\ ReRooted
  /\ \E a \in DOMAIN arr, b \in DOMAIN arr, c \in DOMAIN arr :
       /\ arr[a].live /\ arr[b].live /\ arr[c].live
       /\ a # b /\ arr[a].node # arr[b].node
       /\ hist[a].content = hist[b].content
       /\ hist[a].content # hist[c].content
       /\ arr[a].size = arr[c].size /\ arr[a].size > 0

\* --------------------------------------------------------------- C6
\* what the manager of array a reports and yields: hasUndo(), hasRedo(), and
\* the arrays that undo(), undo().undo(), ... and redo(), redo().redo(), ...
\* return until the history is exhausted
RECURSIVE undoTrail(_, _)
undoTrail(S, a) ==
  LET u == arrUndo(S, a)
  IN IF u.exc # NoExc THEN <<>> ELSE <<Observed(u.S, u.res)>> \o undoTrail(u.S, u.res)

RECURSIVE redoTrail(_, _)
redoTrail(S, a) ==
  LET u == arrRedo(S, a)
  IN IF u.exc # NoExc THEN <<>> ELSE <<Observed(u.S, u.res)>> \o redoTrail(u.S, u.res)

ManagerView(S, a) ==
  [hasUndo |-> hasUndo(undoManager(S.arr[a])), hasRedo |-> hasRedo(undoManager(S.arr[a])),
   undoes |-> undoTrail(S, a), redoes |-> redoTrail(S, a)]

\* C6: a manager is immutable: whatever happens to other objects, every live
\* manager keeps reporting the same hasUndo() / hasRedo() and keeps yielding
\* the same results from undo() / redo().
ManagerImmutability ==
  [][\A a \in DOMAIN arr :
       (arr[a].live /\ arr'[a].live) => ManagerView(StateNext, a) = ManagerView(State, a)]_vars

\* --------------------------------------------------------------- C9
RECURSIVE undoTimes(_, _, _)
undoTimes(S, a, k) ==
  IF k = 0 THEN Ret(S, NoExc, a)
  ELSE LET u == arrUndo(S, a)
       IN IF u.exc # NoExc THEN u ELSE undoTimes(u.S, u.res, k - 1)

\* C9: an array reached through n mutations steps back through them: k undos
\* (k <= n) succeed and yield the array as it was k mutations ago, and a redo
\* after them yields the array as it was k - 1 mutations ago.
ArrayMultiStepHistory ==
  \A a \in DOMAIN arr :
    arr[a].live =>
      \A k \in 1..Len(hist[a].past) :
        LET u == undoTimes(State, a, k)
        IN /\ u.exc = NoExc
           /\ Observed(u.S, u.res) = Holds(hist[a].past[k])
           /\ LET r == arrRedo(u.S, u.res)
              IN /\ r.exc = NoExc
                 /\ Observed(r.S, r.res) =
                      Holds(IF k = 1 THEN hist[a].content ELSE hist[a].past[k - 1])

\* ------------------------------------------------------------ maps: claims

MStateNext == [hnode |-> hnode', act |-> act', entry |-> entry', maps |-> maps']

\* find(k) of map m for every key of KeySeq, in that order
RECURSIVE finds(_, _, _)
finds(S, m, i) ==
  IF i > Len(KeySeq) THEN <<>> ELSE <<mapFind(S, m, KeySeq[i])>> \o finds(S, m, i + 1)

\* what a caller can observe of map m: size(), and find(k) / contains(k)
\* for every key
MapObserved(S, m) == [size |-> S.maps[m].size, finds |-> finds(S, m, 1)]

MapMade == last.exc = NoExc /\ last.made # 0 /\ last.recv # 0

\* C2: PMap persistence: whatever insert, erase, undo or redo call is made on
\* any map (and whichever temporary is destroyed), every map that exists
\* before and after the step reports the same size() and the same find(k) and
\* contains(k) for every key k.
PMapPersistence ==
  [][\A m \in DOMAIN maps :
       (maps[m].live /\ maps'[m].live) => MapObserved(MStateNext, m) = MapObserved(MState, m)]_vars

\* an insert or erase has just returned a map that shares its receiver's
\* Bitmap root or copied it, and the two maps differ in what they hold
PMapPersistenceWitness ==
  /\ MapMade /\ last.op \in {"insert", "erase"}
  /\ maps[last.recv].live
  /\ maps[last.recv].root # 0 /\ hnode[maps[last.recv].root].kind = "bitmap"
  /\ maps[last.made].root # 0 /\ hnode[maps[last.made].root].kind = "bitmap"
  /\ finds(MState, last.recv, 1) # finds(MState, last.made, 1)

\* the round trip of one call's result r made from the map m: undo gives a
\* map equal to m, and redo of that gives a map equal to the result
MapRoundTripOf(r, m) ==
  r.exc = NoExc =>
    LET u == mapUndo(r.S, r.res)
        w == mapRedo(u.S, u.res)
    IN /\ u.exc = NoExc /\ mapEqual(u.S, u.res, m)
       /\ w.exc = NoExc /\ mapEqual(w.S, w.res, r.res)

MapRoundTrip ==
  \A m \in DOMAIN maps :
    maps[m].live =>
      /\ \A k \in Keys, vr \in InsertArgs :
           MapRoundTripOf(mapInsert(MState, m, k, vr[1], vr[2]), m)
      /\ \A k \in Keys : MapRoundTripOf(mapErase(MState, m, k), m)

ArrRoundTripOf(r, a) ==
  r.exc = NoExc =>
    LET u == arrUndo(r.S, r.res)
        e1 == arrEqual(u.S, u.res, a, TRUE)
        w == arrRedo(e1.S, u.res)
        e2 == arrEqual(w.S, w.res, r.res, TRUE)
    IN /\ u.exc = NoExc /\ e1.exc = NoExc /\ e1.res
       /\ w.exc = NoExc /\ e2.exc = NoExc /\ e2.res

ArrRoundTrip ==
  \A a \in DOMAIN arr :
    arr[a].live =>
      /\ \A i \in 0..MaxLen, v \in SetVals : ArrRoundTripOf(setValue(State, a, i, v), a)
      /\ \A v \in PushVals : ArrRoundTripOf(emplaceBack(State, a, v), a)
      /\ ArrRoundTripOf(popBack(State, a), a)

\* lists have no operator==: two lists are equal when they have the same
\* size() and find(i) answers alike for every index
listReads(L, l) ==
  [size |-> L.lists[l].size,
   reads |-> [i \in 0..(L.lists[l].size - 1) |->
                [exc |-> listFind(L, l, i).exc, res |-> listFind(L, l, i).res]]]

ListRoundTripOf(r, l) ==
  r.exc = NoExc =>
    LET u == listUndo(r.S, r.res)
        w == listRedo(u.S, u.res)
    IN /\ u.exc = NoExc /\ listReads(u.S, u.res) = listReads(u.S, l)
       /\ w.exc = NoExc /\ listReads(w.S, w.res) = listReads(w.S, r.res)

ListRoundTrip ==
  \A l \in DOMAIN lists :
    lists[l].live =>
      /\ \A i \in 0..MaxIdx, v \in ListVals :
           /\ ListRoundTripOf(listSet(LState, l, i, v), l)
           /\ ListRoundTripOf(listInsert(LState, l, i, v), l)
      /\ \A i \in 0..MaxIdx : ListRoundTripOf(listErase(LState, l, i), l)
      /\ \A v \in ListVals :
           /\ ListRoundTripOf(listPushFront(LState, l, v), l)
           /\ ListRoundTripOf(listPushBack(LState, l, v), l)
      /\ ListRoundTripOf(listPopFront(LState, l), l)
      /\ ListRoundTripOf(listPopBack(LState, l), l)

\* C4: history round-trip for the three collections: for every live array,
\* map or list v and every mutating call with v' = m(v), v'.undo() is equal
\* to v and v'.undo().redo() is equal to v'.
HistoryRoundTrip == ArrRoundTrip /\ MapRoundTrip /\ ListRoundTrip

\* ----------------------------------------------------------- lists: claims

LStateNext == [order |-> order', lnode |-> lnode', lists |-> lists', act |-> act',
               entry |-> entry', exc |-> NoExc]

\* C3: PList persistence across sibling branches: whatever set, insert,
\* erase, push or pop call is made on any list sharing the nodes and the
\* order, every list that exists before and after the step has the same
\* size() and the same find(i) for every i < size().
PListPersistence ==
  [][\A l \in DOMAIN lists :
       (lists[l].live /\ lists'[l].live) => listReads(LStateNext, l) = listReads(LState, l)]_vars

\* ------------------------------------------- arrays and lists together

\* the array and the list programs side by side: a run is a run of one of the
\* two, which share no object
InitArrList == InitArr \/ InitList
NextArrList == NextArr \/ NextList
SpecArrList == InitArrList /\ [][NextArrList]_vars

\* v.pushBack(x).popBack() == v for the array a, with either operand of the
\* comparison read first
ArrPopPushOf(a, x, lhsFirst) ==
  LET r == emplaceBack(State, a, x) IN
  r.exc = NoExc =>
    LET p == popBack(r.S, r.res)
        e == arrEqual(p.S, p.res, a, lhsFirst)
    IN p.exc = NoExc /\ e.exc = NoExc /\ e.res

\* v.pushBack(x).popBack() reads as v did before the two calls, and as v
\* does after them
ListPopPushOf(l, x) ==
  LET r == listPushBack(LState, l, x) IN
  r.exc = NoExc =>
    LET p == listPopBack(r.S, r.res)
    IN /\ p.exc = NoExc
       /\ listReads(p.S, p.res) = listReads(LState, l)
       /\ listReads(p.S, p.res) = listReads(p.S, l)

ArrPopBackPushBack ==
  \A a \in DOMAIN arr : \A x \in PushVals, lhsFirst \in BOOLEAN :
    arr[a].live => ArrPopPushOf(a, x, lhsFirst)

ListPopBackPushBack ==
  \A l \in DOMAIN lists : \A x \in ListVals :
    lists[l].live => ListPopPushOf(l, x)

\* C11: pop_back(push_back(v, x)) == v for every live array and every live
\* list v and every value x, also when sibling versions of v have already
\* extended the storage v shares with them.
PopBackPushBack == ArrPopBackPushBack /\ ListPopBackPushBack

\* ------------------------------------------------- arrays: failure model

\* the call raised a precondition failure and built or changed nothing
Refused(r) == r = Ret(State, PreConditionFailure, 0)

\* C12: on every live array, value(i) and setValue(i, _) with i >= size(),
\* popBack() on an empty array and front() and back() on an empty array each
\* raise a precondition failure; and every such call that was made did.
PArrayFailureModel ==
  /\ \A a \in DOMAIN arr :
       arr[a].live =>
         /\ \A i \in arr[a].size..(MaxLen + 1) :
              /\ Refused(value(State, a, i))
              /\ \A v \in SetVals : Refused(setValue(State, a, i, v))
         /\ arr[a].size = 0 =>
              /\ Refused(popBack(State, a))
              /\ Refused(front(State, a))
              /\ Refused(back(State, a))
  /\ (last.op = "setValue" /\ ~(last.arg[1] < arr[last.recv].size)) =>
       last.exc = PreConditionFailure /\ last.made = 0
  /\ (last.op = "popBack" /\ arr[last.recv].size = 0) =>
       last.exc = PreConditionFailure /\ last.made = 0

\* a popBack() was refused on an array emptied by earlier popBack() calls,
\* whose tree still stores elements
PArrayFailureModelWitness ==
  /\ last.op = "popBack" /\ last.exc = PreConditionFailure
  /\ arr[last.recv].size = 0 /\ arr[last.recv].node # 0
  /\ hasUndo(undoManager(arr[last.recv]))

\* ------------------------------------------------ the three collections

\* arrays, maps and lists side by side: a run is a run of one of the three
InitAll == InitArr \/ InitMap \/ InitList
NextAll == NextArr \/ NextMap \/ NextList
SpecAll == InitAll /\ [][NextAll]_vars

\* the constructor has just run, with no elements given
DefaultBuilt == last.op = "construct" /\ hist[1].content \in {<<>>, NoKeys}

\* what a fresh object answers: empty() (size_ == 0; a list has size() only),
\* size(), hasUndo() and hasRedo() of its manager
Fresh(obj) ==
  /\ obj.size = 0
  /\ ~hasUndo(undoManager(obj))
  /\ ~hasRedo(undoManager(obj))

FindsAs(S, m, c) ==
  \A i \in DOMAIN KeySeq :
    LET f == mapFind(S, m, KeySeq[i])
    IN /\ f.found = (c[i] # 0)
       /\ f.found => f.val = c[i]
       /\ mapContains(S, m, KeySeq[i]) = (c[i] # 0)

\* C14: PMap refines a finite map: in every state reached by inserts and
\* erases from a constructed map, find(k) and contains(k) of every live map
\* answer exactly what the abstract key-value map holds for k: present with
\* the value of the last effective insert, absent otherwise.
PMapRefinement ==
  \A m \in DOMAIN maps : maps[m].live => FindsAs(MState, m, hist[m].content)

\* what erase(k) must return from map m: nothing raised; the size and every
\* find unchanged when m does not contain k, else the size one less, k absent
\* and every other key found as before
EraseOf(m, k) ==
  LET r == mapErase(MState, m, k) IN
  /\ r.exc = NoExc
  /\ r.exc = NoExc =>
       /\ r.S.maps[r.res].size =
            IF mapContains(MState, m, k) THEN maps[m].size - 1 ELSE maps[m].size
       /\ ~mapContains(r.S, r.res, k)
       /\ \A j \in Keys \ {k} : mapFind(r.S, r.res, j) = mapFind(MState, m, j)

\* C15: erase(k) on a live map that does not contain k returns a map of the
\* same size and contents; on a map that contains k it returns a map of size
\* one less in which k is absent and every other key keeps its value, also
\* for keys that share hash chunks and live under nested Bitmap nodes.
PMapErase ==
  \A m \in DOMAIN maps : maps[m].live => \A k \in Keys : EraseOf(m, k)

\* the number of keys map m contains
Contained(S, m) == Cardinality({k \in Keys : mapContains(S, m, k)})

\* C16: size law: on every live map insert returns a map whose size is the
\* receiver's (key present) or one more (key absent), erase one whose size is
\* the receiver's (key absent) or one less (key present), and size() is the
\* number of keys for which contains() is true.
PMapSizeLaw ==
  \A m \in DOMAIN maps :
    maps[m].live =>
      /\ maps[m].size = Contained(MState, m)
      /\ \A k \in Keys, vr \in InsertArgs :
           LET r == mapInsert(MState, m, k, vr[1], vr[2])
           IN r.exc = NoExc /\ r.S.maps[r.res].size =
                IF mapContains(MState, m, k) THEN maps[m].size ELSE maps[m].size + 1
      /\ \A k \in Keys :
           LET r == mapErase(MState, m, k)
           IN r.exc = NoExc =>
                r.S.maps[r.res].size =
                  IF mapContains(MState, m, k) THEN maps[m].size - 1 ELSE maps[m].size

\* what insert((k, v), replace) must return from map m: k keeps its mapping
\* when m contains it and replace is off, else maps to v; the size grows by
\* one exactly when m does not contain k; every other key is found as before
InsertOf(m, k, v, replace) ==
  LET r == mapInsert(MState, m, k, v, replace)
      f == mapFind(MState, m, k)
  IN /\ r.exc = NoExc
     /\ mapFind(r.S, r.res, k) =
          IF f.found /\ ~replace THEN f ELSE [found |-> TRUE, val |-> v]
     /\ r.S.maps[r.res].size = IF f.found THEN maps[m].size ELSE maps[m].size + 1
     /\ \A j \in Keys \ {k} : mapFind(r.S, r.res, j) = mapFind(MState, m, j)

\* C17: insert of (k, v) into a live map that contains k leaves the mapping
\* of k and the size unchanged when replace is off and maps k to v at the
\* same size when it is on; insert of an absent key adds it with v; every
\* other key keeps its value, whether the entry met on the way is a Value
\* leaf, a Bitmap child or a Collision node.
PMapInsert ==
  \A m \in DOMAIN maps :
    maps[m].live =>
      \A k \in Keys, v \in {10, 20}, replace \in BOOLEAN : InsertOf(m, k, v, replace)

\* an insert with replace off has just met its key inside a Collision node
\* (1 and 1001 have the same hash) and returned a map that keeps the old value
PMapInsertWitness ==
  /\ MapMade /\ last.op = "insert" /\ last.arg = <<1001, 20, FALSE>>
  /\ mapContains(MState, last.recv, 1) /\ mapContains(MState, last.recv, 1001)
  /\ \E n \in DOMAIN hnode : hnode[n].kind = "collision"
  /\ mapFind(MState, last.made, 1001) = [found |-> TRUE, val |-> 10]

\* ------------------------------------------- maps: construction, iteration

\* the map PersistentHashMap{l} holds after construction
Built(l) ==
  mapFromList([hnode |-> <<>>, act |-> <<>>, entry |-> <<>>,
               maps |-> <<MapObj(0, 0, Manager(0, 0))>>], l, 1)

\* the key-value map a pair list stands for when the first pair of a key wins
FirstWins(l) ==
  [i \in DOMAIN KeySeq |->
     IF \E j \in DOMAIN l : l[j][1] = KeySeq[i]
     THEN l[CHOOSE j \in DOMAIN l :
              /\ l[j][1] = KeySeq[i]
              /\ \A h \in 1..(j - 1) : l[h][1] # KeySeq[i]][2]
     ELSE 0]

\* C18: a map constructed from an initializer list holds, for every key, the
\* value of the first pair with that key, its size() is the number of distinct
\* keys of the list, and it reports hasUndo() = FALSE and hasRedo() = FALSE.
PMapInitializerList ==
  (last.op = "construct" /\ maps # <<>>) =>
    /\ \E l \in InitMaps : hnode = Built(l).hnode /\ maps = Built(l).maps
    /\ \A l \in InitMaps :
         (hnode = Built(l).hnode /\ maps = Built(l).maps) =>
           /\ FindsAs(MState, 1, FirstWins(l))
           /\ maps[1].size = Cardinality({l[j][1] : j \in DOMAIN l})
           /\ ~hasUndo(undoManager(maps[1])) /\ ~hasRedo(undoManager(maps[1]))
           /\ mapUndo(MState, 1).exc = PreConditionFailure
           /\ mapRedo(MState, 1).exc = PreConditionFailure

\* a map has just been constructed from a list that names the key 1 twice,
\* with different values
PMapInitializerListWitness ==
  /\ last.op = "construct" /\ maps # <<>>
  /\ \E l \in InitMaps :
       /\ hnode = Built(l).hnode /\ maps = Built(l).maps
       /\ \E i, j \in DOMAIN l : i < j /\ l[i][1] = l[j][1] /\ l[i][2] # l[j][2]
       /\ Len(l) > maps[1].size

\* the pairs the iterator of map m yields from begin() to end(), in order
iterated(S, m) == mapItems(S.hnode, mapBegin(S, m))

\* the pairs of the key-value map c
PairsOf(c) == {<<KeySeq[i], c[i]>> : i \in {j \in DOMAIN KeySeq : c[j] # 0}}

\* the Value leaves the iterator stands on from begin() to end(), in order
RECURSIVE stops(_, _)
stops(H, iteration_) ==
  IF iteration_ = <<>> THEN <<>>
  ELSE (IF H[Head(iteration_)].kind = "value" THEN <<Head(iteration_)>> ELSE <<>>)
       \o stops(H, traverseNext(H, iteration_))

\* the Value leaves stored in the trie under node p
RECURSIVE leavesOf(_, _)
leavesOf(H, p) ==
  IF H[p].kind = "value" THEN {p}
  ELSE UNION {leavesOf(H, H[p].children[i]) : i \in DOMAIN H[p].children}

PMapEquality ==
  \A a, b \in DOMAIN maps :
    (maps[a].live /\ maps[b].live) =>
      (mapEqual(MState, a, b) <=>
         /\ maps[a].size = maps[b].size
         /\ \A k \in Keys : mapFind(MState, a, k) = mapFind(MState, b, k))

\* ------------------------------------------------- lists: what calls return

\* find(i) of list l as the call's outcome: the exception and the value
readAt(L, l, i) == [exc |-> listFind(L, l, i).exc, res |-> listFind(L, l, i).res]

\* the value x as a read that succeeded
Got(x) == [exc |-> NoExc, res |-> x]

\* what insert(i, x) must return from list l for an index of l: x at i, the
\* elements before i as l reads them, the elements from i on one place up
ListInsertOf(l, i, x) ==
  LET r == listInsert(LState, l, i, x) IN
  /\ r.exc = NoExc
  /\ r.exc = NoExc =>
       /\ r.S.lists[r.res].size = lists[l].size + 1
       /\ readAt(r.S, r.res, i) = Got(x)
       /\ \A j \in 0..(i - 1) : readAt(r.S, r.res, j) = readAt(LState, l, j)
       /\ \A j \in i..(lists[l].size - 1) :
            readAt(r.S, r.res, j + 1) = readAt(LState, l, j)

\* what erase(i) must return from list l for an index of l
ListEraseOf(l, i) ==
  LET r == listErase(LState, l, i) IN
  /\ r.exc = NoExc
  /\ r.exc = NoExc =>
       /\ r.S.lists[r.res].size = lists[l].size - 1
       /\ \A j \in 0..(i - 1) : readAt(r.S, r.res, j) = readAt(LState, l, j)
       /\ \A j \in i..(lists[l].size - 2) :
            readAt(r.S, r.res, j) = readAt(LState, l, j + 1)

\* C21: on every live list L and every index i < L.size(): L.insert(i, x)
\* returns a list of size + 1 with x at i, the elements before i unchanged
\* and every element formerly at j >= i at j + 1; L.erase(i) returns a list of
\* size - 1 that reads L.find(j) for j < i and L.find(j + 1) for j >= i.
PListOrder ==
  \A l \in DOMAIN lists :
    lists[l].live =>
      \A i \in 0..(lists[l].size - 1) :
        /\ \A x \in ListVals : ListInsertOf(l, i, x)
        /\ ListEraseOf(l, i)

\* what set(i, x) must return from list l for an index of l: x at i, every
\* other element as l reads it, the same size
ListSetOf(l, i, x) ==
  LET r == listSet(LState, l, i, x) IN
  /\ r.exc = NoExc
  /\ r.exc = NoExc =>
       /\ r.S.lists[r.res].size = lists[l].size
       /\ readAt(r.S, r.res, i) = Got(x)
       /\ \A j \in 0..(lists[l].size - 1) \ {i} :
            readAt(r.S, r.res, j) = readAt(LState, l, j)

\* every element of list l can be read
Readable(L, l) == \A j \in 0..(L.lists[l].size - 1) : readAt(L, l, j).exc = NoExc

\* a loop cur = cur.op(..., k): the call made last is made again on the list
\* it returned, with the same index and each time another value; MaxSets
\* bounds the lists there are in a loop of sets, MaxLoops in the other loops
MaxSets == 14
MaxLoops == 9

LoopOps == {"set", "insert", "erase", "pushFront", "pushBack", "popFront", "popBack"}

listCall(L, op, l, arg, k) ==
  CASE op = "set" -> listSet(L, l, arg[1], k)
    [] op = "insert" -> listInsert(L, l, arg[1], k)
    [] op = "erase" -> listErase(L, l, arg[1])
    [] op = "pushFront" -> listPushFront(L, l, k)
    [] op = "pushBack" -> listPushBack(L, l, k)
    [] op = "popFront" -> listPopFront(L, l)
    [] op = "popBack" -> listPopBack(L, l)

\* the arguments of the call made again, and the sequence it must return
loopArg(op, arg, k) ==
  CASE op \in {"set", "insert"} -> <<arg[1], k>>
    [] op \in {"pushFront", "pushBack"} -> <<k>>
    [] OTHER -> arg

loopContent(op, c, arg, k) ==
  CASE op = "set" -> SetAt(c, arg[1], k)
    [] op = "insert" -> InsertAt(c, arg[1], k)
    [] op = "erase" -> EraseAt(c, arg[1])
    [] op = "pushFront" -> <<k>> \o c
    [] op = "pushBack" -> Append(c, k)
    [] op = "popFront" -> EraseAt(c, 0)
    [] op = "popBack" -> Front(c)

ListAgain ==
  /\ last.op \in LoopOps /\ last.exc = NoExc /\ last.res \in DOMAIN lists
  /\ lists[last.res].live
  /\ Len(lists) < (IF last.op = "set" THEN MaxSets ELSE MaxLoops)
  /\ ListReturns(last.op, last.res, loopArg(last.op, last.arg, Len(lists)),
                 listCall(LState, last.op, last.res, last.arg, Len(lists)),
                 Mutated(hist[last.res],
                         loopContent(last.op, hist[last.res].content, last.arg,
                                     Len(lists))))

SpecListLoops == InitList /\ [][NextList \/ ListAgain]_vars

\* the loops of sets alone
ListSetAgain == last.op = "set" /\ ListAgain

SpecListSets == InitList /\ [][NextList \/ ListSetAgain]_vars

fattest(p) ==
  IF Len(lnode[p].next_) >= Len(lnode[p].last_) /\ Len(lnode[p].next_) >= Len(lnode[p].value_)
  THEN Len(lnode[p].next_)
  ELSE IF Len(lnode[p].last_) >= Len(lnode[p].value_) THEN Len(lnode[p].last_)
  ELSE Len(lnode[p].value_)

\* C23 as stated: no node stores more than MAX_SIZE_FAT_NODE versions in any
\* of its three maps.
FatNodeCap == \A p \in DOMAIN lnode : fattest(p) <= MAX_SIZE_FAT_NODE

\* C23: no node that holds a value stores more than MAX_SIZE_FAT_NODE versions
\* in any of its three maps; the maps of next and last nodes of the two
\* sentinels, which hold no value, are not bounded.
FatNodeCapValued ==
  \A p \in DOMAIN lnode : Len(lnode[p].value_) > 0 => fattest(p) <= MAX_SIZE_FAT_NODE

\* a node with a value whose map is full while a newer node took over from it
FatNodeCapWitness ==
  \E p \in DOMAIN lnode :
    /\ Len(lnode[p].value_) > 0
    /\ fattest(p) = MAX_SIZE_FAT_NODE
    /\ Len(lnode[p].next_) = MAX_SIZE_FAT_NODE
    /\ Len(lnode) > p /\ last.exc = NoExc /\ last.op \in LoopOps

\* ------------------------------------------------- lists: writes to a node
\* the versions the writes are tried at: the first and the newest version the
\* order has recorded, and their negative companions
Recorded ==
  {1, 0 - 1, Len(order.weight_true) - 1, 0 - (Len(order.weight_true) - 1)}

\* the node as it is but for one of its maps
SameBut(L2, p, f) ==
  /\ L2.exc = NoExc
  /\ L2.order = order
  /\ \A q \in DOMAIN lnode \ {p} : L2.lnode[q] = lnode[q]
  /\ DOMAIN L2.lnode = DOMAIN lnode
  /\ f # "value" => L2.lnode[p].value_ = lnode[p].value_
  /\ f # "next" => L2.lnode[p].next_ = lnode[p].next_
  /\ f # "last" => L2.lnode[p].last_ = lnode[p].last_

AddOf(p, v, x) ==
  LET r == nodeAdd(LState, p, v, x) IN
  /\ r.res <=> Len(lnode[p].value_) < MAX_SIZE_FAT_NODE
  /\ r.res => SameBut(r.L, p, "value") /\ nodeFind(r.L, p, v) = x
  /\ ~r.res => r.L = LState

SetNextOf(p, v, q) ==
  LET L2 == setNext(LState, p, v, q) IN
  IF \/ Len(lnode[p].value_) = 0
     \/ Len(lnode[p].next_) < MAX_SIZE_FAT_NODE
     \/ \E e \in DOMAIN lnode[p].next_ : lnode[p].next_[e][1] = v
  THEN SameBut(L2, p, "next") /\ getNext(L2, p, v) = q
  ELSE L2 = LState

SetLastOf(p, v, q) ==
  LET L2 == setLast(LState, p, v, q) IN
  IF \/ Len(lnode[p].value_) = 0
     \/ Len(lnode[p].last_) < MAX_SIZE_FAT_NODE
     \/ \E e \in DOMAIN lnode[p].last_ : lnode[p].last_[e][1] = v
  THEN SameBut(L2, p, "last") /\ getLast(L2, p, v) = q
  ELSE L2 = LState

\* C24: on every node there is, add(version, value) stores the value iff the
\* value map has fewer than MAX_SIZE_FAT_NODE entries; setNext and setLast
\* store the node iff the node holds no value, or the map has fewer than
\* MAX_SIZE_FAT_NODE entries, or has an entry for that very version; a write
\* that is stored is read back at its version and changes nothing else, and
\* a write that is refused changes nothing.
NodeWrites ==
  \A p \in DOMAIN lnode : \A v \in Recorded :
    /\ \A x \in ListVals : AddOf(p, v, x)
    /\ SetNextOf(p, v, 1)
    /\ SetLastOf(p, v, 1)

\* a node with a value and a full map of next nodes, for which setNext is
\* refused at one of the versions and taken at another
NodeWritesWitness ==
  \E p \in DOMAIN lnode :
    /\ Len(lnode[p].value_) > 0
    /\ Len(lnode[p].next_) = MAX_SIZE_FAT_NODE
    /\ \E v \in Recorded : setNext(LState, p, v, 1) = LState /\ getNext(LState, p, v) # 1
    /\ \E v \in Recorded : getNext(setNext(LState, p, v, 1), p, v) = 1 /\ getNext(LState, p, v) # 1

\* ------------------------------------------------- lists: reads of a node
\* version a is v or an ancestor of v: v lies between a and a's companion
ancestor(a, v) == a = v \/ (less(order, a, v) /\ less(order, 0 - v, 0 - a))

\* the entries of map m written at v or at an ancestor of v
written(m, v) == {e \in DOMAIN m : m[e][1] > 0 /\ ancestor(m[e][1], v)}

\* of these, the one written last on the path to v
nearest(m, v) ==
  CHOOSE e \in written(m, v) : \A e2 \in written(m, v) : ~less(order, m[e][1], m[e2][1])

ReadsAncestor(m, v) == written(m, v) # {} => mapAt(order, m, v) = m[nearest(m, v)][2]

\* C25: every field of every node, read at the version of a list, gives what
\* was written there at that version or at its nearest ancestor that wrote the
\* field, never what another branch wrote.
FatNodeRead ==
  \A l \in DOMAIN lists :
    lists[l].live =>
      \A p \in DOMAIN lnode :
        /\ ReadsAncestor(lnode[p].value_, lists[l].version)
        /\ ReadsAncestor(lnode[p].next_, lists[l].version)
        /\ ReadsAncestor(lnode[p].last_, lists[l].version)

\* ------------------------------------------------- the order on its own
\* A PersistenceListOrder that add is called on: hist[v] is the parent version
\* v was added under.  Up to MaxBranch versions are added under any recorded
\* parent, the further ones, up to MaxIds, under version 1.
MaxBranch == 5
MaxIds == 21

Newest == Len(order.weight_true) - 1

InitOrder ==
  /\ order = NoOrder
  /\ hist = <<>>
  /\ last = [op |-> "construct", recv |-> 0, arg |-> <<>>, exc |-> NoExc, res |-> 0,
             made |-> 0]
  /\ node = <<>> /\ act = <<>> /\ entry = <<>> /\ arr = <<>>
  /\ hnode = <<>> /\ maps = <<>> /\ lnode = <<>> /\ lists = <<>>
  /\ work = <<>>

OrderAdd ==
  \E parent \in 0..MaxIds :
    /\ Len(order.weight_true) <= MaxIds
    /\ IF Len(order.list) = 0 THEN parent = 0
       ELSE parent \in 1..Newest /\ (Newest >= MaxBranch => parent = 1)
    /\ order' = orderAdd(order, parent).O
    /\ hist' = Append(hist, parent)
    /\ last' = [op |-> "add", recv |-> 0, arg |-> <<parent>>, exc |-> NoExc,
                res |-> orderAdd(order, parent).res, made |-> 0]
    /\ UNCHANGED <<node, act, entry, arr, hnode, maps, lnode, lists, work>>

\* less reads the weights and changes nothing
OrderLess ==
  \E l \in 1..MaxIds, r \in 1..MaxIds :
    /\ l <= Newest /\ r <= Newest
    /\ less(order, l, r) \in BOOLEAN
    /\ UNCHANGED vars

NextOrder == OrderAdd \/ OrderLess

SpecOrder == InitOrder /\ [][NextOrder]_vars

\* the recorded versions and their negative companions
Signed(n) == {v \in (0 - n)..n : v # 0}

OrderSequential == last.op = "add" => last.res = Len(hist)

OrderTotal ==
  \A a \in Signed(Newest), b \in Signed(Newest) :
    /\ ~less(order, a, a)
    /\ a # b => (less(order, a, b) \/ less(order, b, a))
    /\ ~(less(order, a, b) /\ less(order, b, a))
    /\ \A c \in Signed(Newest) :
         (less(order, a, b) /\ less(order, b, c)) => less(order, a, c)

OrderNested ==
  \A c \in 1..Newest :
    /\ less(order, c, 0 - c)
    /\ hist[c] # 0 =>
         /\ less(order, hist[c], c)
         /\ less(order, 0 - c, 0 - hist[c])

OrderStable ==
  \A a \in Signed(Newest), b \in Signed(Newest) :
    less(order, a, b) = less(order', a, b)

\* C26: add returns 1, 2, 3, ...; after any adds less is a strict total order
\* of the recorded versions and their negative companions, with
\* parent < child < -child < -parent for every child added under parent; and
\* no add changes the answer for two versions recorded before it.
PersistentOrder ==
  /\ [](OrderSequential /\ OrderTotal /\ OrderNested)
  /\ [][OrderStable]_vars

\* ------------------------------------------------- lists: calls that fail
\* the call r failed with exception e and left lists, nodes, order and
\* histories as they were
FailedWith(r, e) == r = [S |-> LState, exc |-> e, res |-> 0]

\* the calls of list l that must fail: an index not below size(), and the
\* pops of an empty list
FailingCalls(l, e) ==
  /\ \A i \in lists[l].size..(lists[l].size + 1) :
       /\ FailedWith(listFind(LState, l, i), e)
       /\ FailedWith(listErase(LState, l, i), e)
       /\ \A x \in ListVals : FailedWith(listSet(LState, l, i, x), e)
  /\ lists[l].size = 0 =>
       /\ FailedWith(listPopFront(LState, l), e)
       /\ FailedWith(listPopBack(LState, l), e)

\* C27: find, erase and set with an index not below size(), and popFront and
\* popBack on an empty list, fail with a precondition failure and leave the
\* list and the shared order unchanged.
PListFailure ==
  \A l \in DOMAIN lists : lists[l].live => FailingCalls(l, PreConditionFailure)

\* ------------------------------------------------- lists: iterators
\* PersistenceListIterator / PersistenceListReverseIterator: (version_, node_)
Iter(version, n) == [version |-> version, node |-> n]

\* PersistentList::begin / end / rbegin / rend
listBegin(L, l) ==
  Iter(L.lists[l].version, getNext(L, L.lists[l].head, L.lists[l].version))
listEnd(L, l) == Iter(L.lists[l].version, L.lists[l].tail)
listRbegin(L, l) ==
  Iter(L.lists[l].version, getLast(L, L.lists[l].tail, L.lists[l].version))
listRend(L, l) == Iter(L.lists[l].version, L.lists[l].head)

\* operator*, and prefix operator++ of the forward and of the reverse iterator
iterValue(L, it) == nodeFind(L, it.node, it.version)
iterNext(L, it) == Iter(it.version, getNext(L, it.node, it.version))
riterNext(L, it) == Iter(it.version, getLast(L, it.node, it.version))

\* for (it = first; it != last; ++it) visit(*it): what is visited, in order.
\* A step from a node that is no node ends the loop with that failure; the
\* loop is followed for MaxWalk steps.
MaxWalk == 8

RECURSIVE visited(_, _, _, _, _)
visited(L, it, last_it, reverse, fuel) ==
  IF it = last_it \/ fuel = 0 THEN <<>>
  ELSE IF it.node <= 0 THEN <<deref(it.node)>>
  ELSE <<iterValue(L, it)>>
       \o visited(L, IF reverse THEN riterNext(L, it) ELSE iterNext(L, it),
                  last_it, reverse, fuel - 1)

forward(L, l) == visited(L, listBegin(L, l), listEnd(L, l), FALSE, MaxWalk)
backward(L, l) == visited(L, listRbegin(L, l), listRend(L, l), TRUE, MaxWalk)

\* C28: iterating a list from begin() to end() visits size() elements, the
\* i-th being find(i); iterating from rbegin() to rend() visits the same
\* elements last first; whatever was done to other versions.
PListIteration ==
  \A l \in DOMAIN lists :
    lists[l].live =>
      /\ Len(forward(LState, l)) = lists[l].size
      /\ Len(backward(LState, l)) = lists[l].size
      /\ \A i \in 0..(lists[l].size - 1) :
           /\ readAt(LState, l, i) = Got(forward(LState, l)[i + 1])
           /\ readAt(LState, l, i) = Got(backward(LState, l)[lists[l].size - i])

\* ------------------------------------------------- lists: postfix operators
\* A postfix operator leaves the iterator at self and returns one of res.
\* PersistenceListIterator::operator++(int) returns the copy made before the
\* step.  operator--(int) returns a reference to that copy, a local variable
\* that is gone when the caller reads it: whatever iterator, or none.
postInc(L, it) == [self |-> iterNext(L, it), res |-> {it}]
postDec(L, it) ==
  [self |-> riterNext(L, it),
   res |-> {Iter(it.version, n) : n \in {BadUB} \cup (0..Len(L.lnode))}]

\* PersistenceListReverseIterator::operator++(int) / operator--(int) step and
\* return *this
rpostInc(L, it) == [self |-> riterNext(L, it), res |-> {riterNext(L, it)}]
rpostDec(L, it) == [self |-> iterNext(L, it), res |-> {iterNext(L, it)}]

\* the iterators that stand on the elements of list l
OnElements(l) ==
  {it \in {Iter(lists[l].version, findNodeByIndex(LState, l, lists[l].version, i)) :
             i \in 0..(lists[l].size - 1)} : it.node > 0}

\* C29: postfix ++ and -- of the forward and of the reverse iterator return
\* the iterator as it stood before the step, and leave the iterator one
\* element further (++) or back (--) in its direction.
PListPostfix ==
  \A l \in DOMAIN lists :
    lists[l].live =>
      \A it \in OnElements(l) :
        /\ postInc(LState, it) = [self |-> iterNext(LState, it), res |-> {it}]
        /\ postDec(LState, it) = [self |-> riterNext(LState, it), res |-> {it}]
        /\ rpostInc(LState, it) = [self |-> riterNext(LState, it), res |-> {it}]
        /\ rpostDec(LState, it) = [self |-> iterNext(LState, it), res |-> {it}]

\* ------------------------------------------------- lists: pushes and pops
\* list l2 of world L2 reads as list l does now, from index from on, shifted
\* by shift
ReadsAs(L2, l2, l, from, to, shift) ==
  \A j \in from..to : readAt(L2, l2, j + shift) = readAt(LState, l, j)

\* undo on the list r returned gives a list that reads as l does
UndoneTo(r, l) ==
  LET u == listUndo(r.S, r.res) IN
  /\ u.exc = NoExc
  /\ u.exc = NoExc =>
       /\ u.S.lists[u.res].size = lists[l].size
       /\ \A j \in 0..(lists[l].size - 1) : readAt(u.S, u.res, j) = readAt(LState, l, j)

PushFrontOf(l, x) ==
  LET r == listPushFront(LState, l, x) IN
  /\ r.exc = NoExc
  /\ r.exc = NoExc =>
       /\ r.S.lists[r.res].size = lists[l].size + 1
       /\ readAt(r.S, r.res, 0) = Got(x)
       /\ ReadsAs(r.S, r.res, l, 0, lists[l].size - 1, 1)
       /\ UndoneTo(r, l)

PushBackOf(l, x) ==
  LET r == listPushBack(LState, l, x) IN
  /\ r.exc = NoExc
  /\ r.exc = NoExc =>
       /\ r.S.lists[r.res].size = lists[l].size + 1
       /\ readAt(r.S, r.res, lists[l].size) = Got(x)
       /\ ReadsAs(r.S, r.res, l, 0, lists[l].size - 1, 0)
       /\ UndoneTo(r, l)

PopFrontOf(l) ==
  LET r == listPopFront(LState, l) IN
  /\ r.exc = NoExc
  /\ r.exc = NoExc =>
       /\ r.S.lists[r.res].size = lists[l].size - 1
       /\ ReadsAs(r.S, r.res, l, 1, lists[l].size - 1, 0 - 1)
       /\ UndoneTo(r, l)

PopBackOf(l) ==
  LET r == listPopBack(LState, l) IN
  /\ r.exc = NoExc
  /\ r.exc = NoExc =>
       /\ r.S.lists[r.res].size = lists[l].size - 1
       /\ ReadsAs(r.S, r.res, l, 0, lists[l].size - 2, 0)
       /\ UndoneTo(r, l)

\* C30: on every list, pushFront(x) returns x followed by the receiver's
\* elements and pushBack(x) the receiver's elements followed by x, the empty
\* receiver included; on a list that is not empty popFront() returns it without
\* its first and popBack() without its last element; the size changes by one
\* and undo on the result gives the receiver's elements back.
PListEnds ==
  \A l \in DOMAIN lists :
    lists[l].live =>
      /\ \A x \in ListVals : PushFrontOf(l, x) /\ PushBackOf(l, x)
      /\ lists[l].size > 0 => PopFrontOf(l) /\ PopBackOf(l)

\* ------------------------------------------------- arrays: iterators
\* PersistentArrayIterator: target_ is a reference to the array the iterator
\* was taken from (the array object itself, not its contents), currentIndex_
\* a position 0..size()
ArrIter(a, i) == [target |-> a, currentIndex |-> i]

\* what an operator of the iterator gives: a value, or the exception raised
Gives(x) == [exc |-> NoExc, res |-> x]
Raises(e) == [exc |-> e, res |-> 0]

\* an expression no operator is declared for: the program that uses it is
\* rejected by the compiler
IllFormed == "ill-formed"

\* PersistentArrayIterator::verifyCompatibility: &target_ == &other.target_
verifyCompatibility(it, other) == it.target = other.target

\* operator==, operator!=, operator<, operator>
iterEq(it, other) ==
  IF ~verifyCompatibility(it, other) THEN Raises(PreConditionFailure)
  ELSE Gives(it.currentIndex = other.currentIndex)

iterNe(it, other) == Gives(~(it.currentIndex = other.currentIndex))

iterLt(it, other) ==
  IF ~verifyCompatibility(it, other) THEN Raises(PreConditionFailure)
  ELSE Gives(it.currentIndex < other.currentIndex)

iterGt(it, other) == iterLt(other, it)

\* operator<= is !(this > other) and operator>= is !(this < other): this is
\* a pointer, and no operator compares a pointer with an iterator
iterLe(it, other) == Raises(IllFormed)

iterGe(it, other) == Raises(IllFormed)

\* operator-(const PersistentArrayIterator &)
iterDiff(it, other) == Gives(it.currentIndex - other.currentIndex)

\* the iterators of array a: begin() .. end()
ItersOf(a) == {ArrIter(a, i) : i \in 0..arr[a].size}

\* C31: every comparison of two iterators taken from different arrays (==,
\* !=, <, >, <=, >=, difference) raises a precondition failure.
PArrayIterOrigin ==
  \A a \in DOMAIN arr, b \in DOMAIN arr :
    (arr[a].live /\ arr[b].live /\ a # b) =>
      \A x \in ItersOf(a), y \in ItersOf(b) :
        /\ iterEq(x, y) = Raises(PreConditionFailure)
        /\ iterNe(x, y) = Raises(PreConditionFailure)
        /\ iterLt(x, y) = Raises(PreConditionFailure)
        /\ iterGt(x, y) = Raises(PreConditionFailure)
        /\ iterLe(x, y) = Raises(PreConditionFailure)
        /\ iterGe(x, y) = Raises(PreConditionFailure)
        /\ iterDiff(x, y) = Raises(PreConditionFailure)

\* C32: for two iterators of one array at the indices i and j, a < b iff
\* i < j, a > b iff i > j, a <= b iff i <= j, a >= b iff i >= j, and a != b
\* iff not a == b.
PArrayIterRelations ==
  \A a \in DOMAIN arr :
    arr[a].live =>
      \A x \in ItersOf(a), y \in ItersOf(a) :
        /\ iterLt(x, y) = Gives(x.currentIndex < y.currentIndex)
        /\ iterGt(x, y) = Gives(x.currentIndex > y.currentIndex)
        /\ iterLe(x, y) = Gives(x.currentIndex <= y.currentIndex)
        /\ iterGe(x, y) = Gives(x.currentIndex >= y.currentIndex)
        /\ iterEq(x, y).exc = NoExc
        /\ iterNe(x, y) = Gives(~iterEq(x, y).res)

\* ------------------------------------------------------- HAMT: invariants
\* the nodes a visitor comes to below p, each with the level it is visited
\* at: p itself and what hangs under the bits of Bitmap nodes (the leaves of
\* a Collision node are its entries, searched by the node itself)
RECURSIVE placed(_, _, _)
placed(H, p, level) ==
  IF p = 0 THEN {}
  ELSE {<<p, level>>} \cup
       (IF H[p].kind = "bitmap"
          THEN UNION {placed(H, H[p].children[i], level + 1) : i \in DOMAIN H[p].children}
          ELSE {})

\* the nodes of the tries of the live maps
Placed == UNION {placed(hnode, maps[m].root, 0) : m \in {x \in DOMAIN maps : maps[x].live}}

\* the keys stored under node p
keysUnder(H, p) == {H[v].key : v \in leavesOf(H, p)}

\* the table of Bitmap node n has one present child per set bit
Populated(n) ==
  /\ Len(n.children) = Cardinality(n.bitmap)
  /\ \A i \in DOMAIN n.children : n.children[i] # 0

\* what hangs under bit b of Bitmap node n, visited at level, holds only keys
\* whose hash has b as its part of that level
Routed(n, level) ==
  \A b \in n.bitmap :
    \A k \in keysUnder(hnode, getChildAtBit(n, b)) : getLevelBit(Hasher(k), level) = b

\* C33: in every Bitmap node of a map reached by inserts and erases the number
\* of children is the number of set bits, no child is absent, child i belongs
\* to the i-th set bit from the low end, and what is stored under bit b at
\* level l holds only keys whose hash part at level l is b.
HamtBitmapInvariant ==
  \A pl \in Placed :
    hnode[pl[1]].kind = "bitmap" =>
      /\ Populated(hnode[pl[1]])
      /\ Routed(hnode[pl[1]], pl[2])

\* the population part of C33 alone
HamtBitmapPopulated ==
  \A pl \in Placed : hnode[pl[1]].kind = "bitmap" => Populated(hnode[pl[1]])

\* Collision node n: at least two children, all Value leaves, with pairwise
\* distinct keys and one hash
Clash(n) ==
  /\ Len(n.children) >= 2
  /\ \A i \in DOMAIN n.children :
       /\ n.children[i] # 0
       /\ hnode[n.children[i]].kind = "value"
  /\ \A i \in DOMAIN n.children, j \in DOMAIN n.children :
       /\ i # j => hnode[n.children[i]].key # hnode[n.children[j]].key
       /\ Hasher(hnode[n.children[i]].key) = Hasher(hnode[n.children[j]].key)

\* C34: after any inserts and erases no child of a Bitmap node is absent,
\* every Collision node has at least two children, all Value leaves with
\* pairwise distinct keys and the same full hash, and no node of the trie is
\* visited at a level above MaxDepth + 1.
HamtCollisionInvariant ==
  \A pl \in Placed :
    /\ hnode[pl[1]].kind = "bitmap" =>
         \A i \in DOMAIN hnode[pl[1]].children : hnode[pl[1]].children[i] # 0
    /\ hnode[pl[1]].kind = "collision" => Clash(hnode[pl[1]])
    /\ pl[2] <= MaxDepth + 1

\* maps with a key outside KeySeq whose hash is 0, the part that the hash of
\* 1 and 1001 has at every level but the first: PersistentHashMap{{1, 10},
\* {1001, 10}, {2, 10}} and the calls of NextMap, with insert of that key
FarKeys == {0}

InitMapFar ==
  LET S0 == mapFromList([hnode |-> <<>>, act |-> <<>>, entry |-> <<>>,
                         maps |-> <<MapObj(0, 0, Manager(0, 0))>>],
                        <<<<1, 10>>, <<1001, 10>>, <<2, 10>>>>, 1)
  IN /\ hnode = S0.hnode
     /\ act = S0.act
     /\ entry = S0.entry
     /\ maps = S0.maps
     /\ node = <<>>
     /\ arr = <<>>
     /\ order = NoOrder
     /\ lnode = <<>>
     /\ lists = <<>>
     /\ work = <<>>
     /\ hist = <<Born(<<10, 0, 10, 10>>)>>
     /\ last = [op |-> "construct", recv |-> 0, arg |-> <<>>, exc |-> NoExc, res |-> 1,
                made |-> 1]

\* hist lists the keys of KeySeq, which an insert of another key leaves as
\* they are
MapInsertFar ==
  \E m \in DOMAIN maps, k \in FarKeys, vr \in InsertArgs :
    /\ maps[m].live /\ CanMakeMap
    /\ LET r == mapInsert(MState, m, k, vr[1], vr[2])
       IN MapReturns("insert", m, <<k, vr[1], vr[2]>>, r,
                     Mutated(hist[m], hist[m].content))

NextMapFar == NextMap \/ MapInsertFar

SpecMapFar == InitMapFar /\ [][NextMapFar]_vars

\* ------------------------------------------- arrays: the modification tree
\* following the parent pointers from node n comes to a Root within fuel steps
RECURSIVE climbs(_, _, _)
climbs(N, n, fuel) ==
  IF n = 0 THEN FALSE
  ELSE IF N[n].root THEN TRUE
  ELSE IF fuel = 0 THEN FALSE
  ELSE climbs(N, N[n].parent, fuel - 1)

\* the nodes owned in graph S: a Root has no parent, and every node comes to
\* a Root along its parents (one parent each, so one Root per tree) in fewer
\* steps than there are nodes
Shaped(S) ==
  \A n \in LiveNodes(S) :
    /\ S.node[n].root => S.node[n].parent = 0
    /\ climbs(S.node, n, Len(S.node))

\* re-rooting for array a, as value() does it for an index its node does not
\* hold, goes through, makes a's node the Root and keeps the shape
ReRootOf(a) ==
  LET rr == reRootModificationTree(node, arr[a].node)
  IN /\ rr.exc = NoExc
     /\ rr.node[arr[a].node].root
     /\ Shaped([State EXCEPT !.node = rr.node])

\* C35: after any mutations and re-rootings every modification tree has one
\* Root, which has no parent, the parent pointers lead from every node to the
\* Root in finitely many steps, and right after a re-root made for an array
\* that array's node is the Root.
TreeShape ==
  /\ Shaped(State)
  /\ \A a \in DOMAIN arr : (arr[a].live /\ arr[a].node # 0) => ReRootOf(a)

\* a tree that has been re-rooted, with a live array whose node stands two or
\* more steps below the Root
TreeShapeWitness ==
  /\ ReRooted
  /\ \E a \in DOMAIN arr :
       /\ arr[a].live /\ arr[a].node # 0
       /\ Len(PathToRoot(node, arr[a].node)) >= 2

\* ------------------------------------------------------ arrays: push_back
\* pushBack(v) on array a of size n: a change-set (n, v) under a's node when
\* the root holds slot n, v appended to the root's storage when it does not;
\* the result has size n + 1 and reads v at n, and every live array longer
\* than n reads at n what it read before
PushBackOntoOf(a, v) ==
  LET n == arr[a].size
      f == findOrCreateRoot(State, a)
      r == emplaceBack(State, a, v)
      made == r.S.arr[r.res]
  IN /\ f.exc = NoExc /\ r.exc = NoExc
     /\ IF contains(f.S.node[f.res], n)
          THEN /\ r.S.node = Append(f.S.node, makeChangeSet(f.S.arr[a].node, n, v))
               /\ made.node = Len(r.S.node)
          ELSE /\ r.S.node = [f.S.node EXCEPT ![f.res].storage = Append(@, v)]
               /\ made.node = f.S.arr[a].node
     /\ made.size = n + 1
     /\ value(r.S, r.res, n).exc = NoExc
     /\ value(r.S, r.res, n).res = v
     /\ \A b \in DOMAIN arr :
          (arr[b].live /\ arr[b].size > n) =>
            /\ value(State, b, n).exc = NoExc
            /\ value(r.S, b, n).exc = NoExc
            /\ value(r.S, b, n).res = value(State, b, n).res
            /\ value(value(r.S, r.res, n).S, b, n).res = value(State, b, n).res

\* C36: push_back(v) on a version of size n makes a change-set (n, v) whose
\* parent is the receiver's node if the root of the tree already holds slot
\* n, and appends v to the root's storage otherwise; either way the array
\* returned has size n + 1 and value(n) == v, and every live version larger
\* than n still reads its own value at index n.
PushBackOnto ==
  \A a \in DOMAIN arr, v \in PushVals \cup SetVals : arr[a].live => PushBackOntoOf(a, v)

\* pushBack has returned an array on a change-set made because the root held
\* the slot, next to a live array that reads another value at that index
PushBackOntoWitness ==
  /\ last.op = "pushBack" /\ last.exc = NoExc
  /\ arr[last.recv].live /\ arr[last.res].live
  /\ arr[last.res].node # arr[last.recv].node
  /\ \E b \in DOMAIN arr :
       /\ arr[b].live /\ arr[b].size >= arr[last.res].size
       /\ value(State, b, arr[last.recv].size).res
            # value(State, last.res, arr[last.recv].size).res

\* pushBack has returned an array for a value appended to the root's storage
\* through a receiver whose node is a change-set
PushBackAppendedWitness ==
  /\ last.op = "pushBack" /\ last.exc = NoExc
  /\ arr[last.recv].live /\ arr[last.res].live
  /\ arr[last.res].node = arr[last.recv].node
  /\ ~node[arr[last.res].node].root

\* ------------------------------------------------------ order: the labels
\* the labels along the sequence, first place first
labels(O) == [i \in DOMAIN O.list |-> weightOf(O, O.list[i])]

\* the labels lie within the border, grow strictly along the sequence, and no
\* two versions or companions have the same label
LabelsIncrease ==
  /\ \A i \in DOMAIN order.list :
       0 - weight_border <= labels(order)[i] /\ labels(order)[i] <= weight_border
  /\ \A i \in DOMAIN order.list, j \in DOMAIN order.list :
       i < j => labels(order)[i] < labels(order)[j]
  /\ \A a \in Signed(Newest), b \in Signed(Newest) :
       a # b => weightOf(order, a) # weightOf(order, b)

\* an add under a recorded parent leaves the new version and its companion
\* with labels strictly between the parent's and that of the parent's
\* successor in the sequence before the add
LabelsBetween ==
  (Len(order.list) > 0 /\ order' # order) =>
    LET parent == last'.arg[1]
        new_version == last'.res
        next_parent == order.list[handle(order, parent) + 1]
    IN /\ weightOf(order', parent) < weightOf(order', new_version)
       /\ weightOf(order', new_version) < weightOf(order', 0 - new_version)
       /\ weightOf(order', 0 - new_version) < weightOf(order', next_parent)

\* C37: every add(parent) gives the new version and its companion labels
\* strictly between the label of parent and the label of parent's successor;
\* when a gap is used up all labels are renumbered within [-W, W], so after
\* any number of adds the labels grow strictly along the sequence and no two
\* distinct ids have the same label.
OrderLabelling == [](LabelsIncrease) /\ [][LabelsBetween]_vars

\* ------------------------------------------- arrays: reads by two workers
\* Two workers call value(index) on arrays of one modification tree at the
\* same time.  The steps of a call are interleaved: the test
\* node_->contains(index), each round of the two loops of
\* reRootModificationTree, and the final node_->value(index).

\* the read that goes wrong when the impl it uses is swapped away under it
nodeValue_stale(N, n, index) == Gives(N[RootOf(N, n)].storage[index + 1])

\* PersistentNode::value: RootNodeImpl::value is storage_.at(index),
\* ChangeSetNodeImpl::value expects contains(index)
nodeValue(N, n, index) ==
  IF N[n].root
    THEN IF index < Len(N[n].storage) THEN Gives(N[n].storage[index + 1])
         ELSE Raises(OutOfRange)
    ELSE IF N[n].index = index THEN Gives(N[n].value) ELSE Raises(PreConditionFailure)

\* the trees the workers read: {1, 2, 3}, its setValue(0, 200), and that
\* one's setValue(1, 200); as built, and re-rooted by a read of the last
ReadBase ==
  [node |-> <<makeRoot(<<1, 2, 3>>)>>, act |-> <<>>, entry |-> <<>>,
   arr |-> <<ArrayObj(3, 1, Manager(0, 0))>>]
ReadBases ==
  LET B == setValue(setValue(ReadBase, 1, 0, 200).S, 2, 1, 200).S
  IN {B, value(B, 3, 2).S}

\* a worker about to call value(index) on array a; want is what the call
\* gives when nothing else runs
Worker(B, a, index) ==
  [pc |-> "begin", a |-> a, index |-> index, root |-> 0, path |-> <<>>,
   out |-> Raises("none"), rerooted |-> FALSE, want |-> value(B, a, index).res]

InitRead ==
  \E B \in ReadBases : \E a1 \in DOMAIN B.arr, a2 \in DOMAIN B.arr, i1 \in 0..2, i2 \in 0..2 :
    /\ node = B.node
    /\ act = B.act
    /\ entry = B.entry
    /\ arr = B.arr
    /\ work = <<Worker(B, a1, i1), Worker(B, a2, i2)>>
    /\ hnode = <<>>
    /\ maps = <<>>
    /\ order = NoOrder
    /\ lnode = <<>>
    /\ lists = <<>>
    /\ hist = <<>>
    /\ last = [op |-> "construct", recv |-> 0, arg |-> <<>>, exc |-> NoExc, res |-> 1,
               made |-> 1]

\* a step of worker w changes the nodes and w's own record
Steps(w, N, rec) ==
  /\ node' = N
  /\ work' = [work EXCEPT ![w] = rec]
  /\ UNCHANGED <<act, entry, arr, hnode, maps, order, lnode, lists, hist, last>>

Ends(w, N, out) == Steps(w, N, [work[w] EXCEPT !.pc = "done", !.out = out])

\* another worker is inside reRootModificationTree
Racing(w) == \E u \in DOMAIN work : u # w /\ work[u].pc \in {"walk", "sift"}

\* value(): if (!node_->contains(index)) reRootModificationTree();
ReadBegin(w) ==
  /\ work[w].pc = "begin"
  /\ IF contains(node[arr[work[w].a].node], work[w].index)
       THEN Steps(w, node, [work[w] EXCEPT !.pc = "read"])
       ELSE Steps(w, node, [work[w] EXCEPT !.pc = "walk", !.root = arr[work[w].a].node,
                                           !.rerooted = TRUE])

\* reRootModificationTree, a round of the first loop:
\* while (!root->isRoot()) { path.push(root); root = root->reparent(nullptr); }
\* a null root is dereferenced
ReadWalk(w) ==
  /\ work[w].pc = "walk"
  /\ LET root == work[w].root
     IN IF root = 0 THEN Ends(w, node, Raises(Undefined))
        ELSE IF node[root].root THEN Steps(w, node, [work[w] EXCEPT !.pc = "sift"])
        ELSE Steps(w, reparent(node, root, 0),
                   [work[w] EXCEPT !.path = Append(@, root), !.root = node[root].parent])

\* reRootModificationTree, a round of the second loop: siftUpRoot expects a
\* root and a change-set whose index the root holds
ReadSift(w) ==
  /\ work[w].pc = "sift"
  /\ LET root == work[w].root
         path == work[w].path
         upper == path[Len(path)]
     IN IF path = <<>> THEN Steps(w, node, [work[w] EXCEPT !.pc = "read"])
        ELSE IF root = 0 THEN Ends(w, node, Raises(Undefined))
        ELSE IF ~(node[root].root /\ ~node[upper].root /\ contains(node[root], node[upper].index))
          THEN Ends(w, node, Raises(PreConditionFailure))
        ELSE LET N == reparent(siftUpRoot(node, root, upper), root, upper)
             IN Steps(w, N, [work[w] EXCEPT !.path = SubSeq(path, 1, Len(path) - 1),
                                            !.root = N[root].parent])

\* return SAFE_DEREF(node_->value(index)); a read of an impl that another
\* worker is swapping at that moment is a data race, with any outcome
ReadEnd(w) ==
  /\ work[w].pc = "read"
  /\ \/ Ends(w, node, nodeValue(node, arr[work[w].a].node, work[w].index))
     \/ Racing(w) /\ Ends(w, node, Raises(Undefined))

NextRead == \E w \in {1, 2} : ReadBegin(w) \/ ReadWalk(w) \/ ReadSift(w) \/ ReadEnd(w)

SpecRead == InitRead /\ [][NextRead]_vars

\* C38: two workers that read fixed versions of one modification tree get the
\* right elements as long as neither read triggers re-rooting: a read that
\* ends with anything else than the element has run while one of the two
\* calls went through reRootModificationTree.
ReadsSafe ==
  \A w \in DOMAIN work :
    (work[w].pc = "done" /\ work[w].out # Gives(work[w].want)) =>
      \E u \in DOMAIN work : work[u].rerooted

\* both workers have read the same index of two different versions without
\* re-rooting and got different elements
ReadsSafeWitness ==
  /\ Len(work) = 2
  /\ work[1].pc = "done" /\ work[2].pc = "done"
  /\ ~work[1].rerooted /\ ~work[2].rerooted
  /\ arr[work[1].a].node # arr[work[2].a].node /\ work[1].index = work[2].index
  /\ work[1].out.exc = NoExc /\ work[2].out.exc = NoExc
  /\ work[1].out # work[2].out

\* a worker that did not re-root has ended with something else than its
\* element while the other worker re-rooted
ReadsRaced ==
  \E w \in DOMAIN work :
    /\ work[w].pc = "done" /\ ~work[w].rerooted
    /\ work[w].out # Gives(work[w].want)

\* --------------------------------------------------------- maps: erase
\* C39: erase never fails: on every map that can be reached and for every
\* key, present or not, erase(key) returns a map and raises nothing, also
\* when the key is the last leaf left under a nested Bitmap node.
PMapEraseTotal ==
  \A m \in DOMAIN maps :
    maps[m].live => \A k \in Keys : mapErase(MState, m, k).exc = NoExc

\* ---------------------------------------------------- history: its depth
\* the number of undo() calls, one on the result of the other, that manager m
\* lets through before hasUndo() is false, and the same for redo()
RECURSIVE undoDepth(_, _)
undoDepth(E, m) ==
  IF ~hasUndo(m) THEN 0 ELSE 1 + undoDepth(undo(E, m).entry, undo(E, m).mgr)

RECURSIVE redoDepth(_, _)
redoDepth(E, m) ==
  IF ~hasRedo(m) THEN 0 ELSE 1 + redoDepth(redo(E, m).entry, redo(E, m).mgr)

\* the live collection objects of the state, each with its place in hist
Collections ==
  {[at |-> i, obj |-> arr[i]] : i \in {j \in DOMAIN arr : arr[j].live}}
    \cup {[at |-> i, obj |-> maps[i]] : i \in {j \in DOMAIN maps : maps[j].live}}
    \cup {[at |-> i, obj |-> lists[i]] : i \in {j \in DOMAIN lists : lists[j].live}}

\* hist[at].past lists the states of the n - k mutating calls not undone and
\* hist[at].future those of the k calls undone
DepthKept(c) ==
  /\ undoDepth(entry, undoManager(c.obj)) = Len(hist[c.at].past)
  /\ redoDepth(entry, undoManager(c.obj)) = Len(hist[c.at].future)

\* a call on map m that leaves the contents as they are records one more
\* entry, and its undo is a map equal to m
IdleRecorded(m, r) ==
  /\ r.exc = NoExc
  /\ undoDepth(r.S.entry, undoManager(r.S.maps[r.res]))
       = 1 + undoDepth(entry, undoManager(maps[m]))
  /\ mapUndo(r.S, r.res).exc = NoExc
  /\ mapEqual(mapUndo(r.S, r.res).S, mapUndo(r.S, r.res).res, m)

IdleCalls(m) ==
  /\ \A k \in Keys : ~mapContains(MState, m, k) => IdleRecorded(m, mapErase(MState, m, k))
  /\ \A k \in Keys : mapContains(MState, m, k) =>
       IdleRecorded(m, mapInsert(MState, m, k, 20, FALSE))

\* C40: from an empty history, after n mutating calls and then k <= n undos,
\* exactly n - k more undos and exactly k redos go through before hasUndo()
\* and hasRedo() are false; for maps also when some of the calls left the
\* contents as they were (erase of a missing key, insert without replace of
\* a present key): each records one entry whose undo is a map equal to the
\* receiver.
HistoryDepth ==
  /\ \A c \in Collections : DepthKept(c)
  /\ \A m \in DOMAIN maps : maps[m].live => IdleCalls(m)

\* the two halves of C40 on their own
HistoryDepthKept == \A c \in Collections : DepthKept(c)
HistoryIdleCalls == \A m \in DOMAIN maps : maps[m].live => IdleCalls(m)

====
